---- MODULE Spec2Model ----
(***************************************************************************)
(* RamadanReady: the alarm engine of the main page context.                *)
(*                                                                         *)
(* The model follows alarms.js (scheduleAlarms, triggerAlarm,              *)
(* checkMissedAlarms, initAlarmSystem), the settings screen of app.js      *)
(* (saveSettings, clearAllData, initApp) and the parts of db.js they read  *)
(* (getTodayData, getActiveCalendar, clearAll, createSampleCalendar).      *)
(*                                                                         *)
(* Time is the epoch time of a JavaScript Date in milliseconds, counted    *)
(* from local midnight of the first modelled day.  An HH:MM string is the  *)
(* pair <<h, m>> that split(':').map(Number) yields; a DD-MM string is the *)
(* pair <<day, month>>.  A localStorage key is a slot: <<>> when the key   *)
(* is absent, <<v>> when it holds v.                                       *)
(***************************************************************************)
EXTENDS Integers, Sequences, FiniteSets, TLC

(***************************************************************************)
(* Bounds of the model.                                                    *)
(***************************************************************************)
MaxDay == 1        \* calendar days 0 .. MaxDay are modelled
MaxCalls == 2      \* handlers suspended at an await at one time: scheduleAlarms
                   \* calls, and saveSettings calls at the permission request
MaxCalendarId == 2 \* calendar ids the key generator hands out
MaxMessages == 2   \* messages posted to the service worker
MaxStored == 2     \* calendars stored, and being stored, in the import flow
MaxKeys == 3       \* keys the store's key generator hands out, store on its own
MaxPending == 3    \* requests of the page's calls pending at the store at a time

(***************************************************************************)
(* Units and program constants.                                            *)
(***************************************************************************)
SECOND == 1000
MINUTE == 60000
HOUR == 60 * 60 * 1000
DAY == 24 * HOUR

MAX_MISSED_ALARM_AGE == 60 * 60 * 1000
REPLAN_INTERVAL == 60 * 60 * 1000

VARIABLES
    clock,            \* wall clock, ms
    permission,       \* Notification.permission
    calendars,        \* IndexedDB store 'calendars': set of [id, days]
    activeCalendarId, \* localStorage 'activeCalendarId' (slot)
    nextId,           \* key generator of the store
    alarmSettings,    \* localStorage 'alarmSettings' (slot)
    nextAlarmData,    \* localStorage 'nextAlarmData' (slot)
    running,          \* a page process is alive
    uiReady,          \* initApp has rendered the screens
    firstCheck,       \* createCalendar's deferred first-calendar check (slot)
    intervalDue,      \* next due time of the hourly interval (slot)
    alarmTimers,      \* the timers of alarmTimers, with the host's state
    calls,            \* scheduleAlarms calls suspended at an await, oldest first
    saves,            \* saveSettings calls suspended at requestPermission
    trace,            \* what the handler that ran last did, in order
    life,             \* which of checkMissedAlarms / scheduleAlarms this process entered first
    worker,           \* the text of service-worker.js that is the installed worker
    cache,            \* the worker's cache: <<request path, the response held for it>>
    response,         \* what the last fetch event was answered with (slot)
    posted,           \* the messages posted to the worker, in order
    handled,          \* how many of them the worker's message listener has handled
    workerTrace,      \* what the worker's message listener did, in order
    importData,       \* the parsed JSON of the file chosen for import (slot)
    validation,       \* validateImportData's result for it (slot)
    pendingImportData \* file-handler.js pendingImportData (slot)

vars == <<clock, permission, calendars, activeCalendarId, nextId, alarmSettings,
          nextAlarmData, running, uiReady, firstCheck, intervalDue, alarmTimers,
          calls, saves, trace, life, worker, cache, response, posted, handled,
          workerTrace, importData, validation, pendingImportData>>

\* The state of the alarm engine's page, of the service worker, and of the
\* import screen.
pageVars == <<clock, permission, calendars, activeCalendarId, nextId, alarmSettings,
              nextAlarmData, running, uiReady, firstCheck, intervalDue, alarmTimers,
              calls, saves, trace, life>>
workerVars == <<worker, cache, response, posted, handled, workerTrace>>
importVars == <<importData, validation, pendingImportData>>

Days == 0 .. MaxDay

(***************************************************************************)
(* Dates.                                                                  *)
(***************************************************************************)
\* Date.prototype.toDateString: the local calendar date of an instant.
toDateString(t) == t \div DAY

\* Mutant of setHours: the seconds and milliseconds of now are kept.
setHours_KeepsSeconds(now, hm) ==
    toDateString(now) * DAY + hm[1] * HOUR + hm[2] * MINUTE + (now % MINUTE)

\* new Date(now); setHours(h, m, 0, 0): the instant of h:m on now's date.
setHours(now, hm) == toDateString(now) * DAY + hm[1] * HOUR + hm[2] * MINUTE

\* The DD-MM string of an instant's date (db.js getTodayData).  Day 0 of the
\* model is the 10th of April.
todayStr(t) == <<10 + toDateString(t), 4>>

\* Date.prototype.toISOString and new Date(isoString): the instant as its
\* date and time-of-day fields, and back.
toISOString(t) ==
    [date |-> t \div DAY,
     hh |-> (t % DAY) \div HOUR,
     mm |-> (t % HOUR) \div MINUTE,
     ss |-> (t % MINUTE) \div SECOND,
     ms |-> t % SECOND]

DateOf(iso) ==
    iso.date * DAY + iso.hh * HOUR + iso.mm * MINUTE + iso.ss * SECOND + iso.ms

(***************************************************************************)
(* Calendar data (db.js).                                                  *)
(***************************************************************************)
Day(d, sahar, iftar) == [date |-> <<10 + d, 4>>, saharTime |-> sahar, iftarTime |-> iftar]

\* The event times of the calendars a user has entered: 05:30 and 23:45.
UserSahar == <<5, 30>>
UserIftar == <<23, 45>>

\* The day list of the user's calendar at Init: every modelled day.
UserDays == [i \in 1 .. MaxDay + 1 |-> Day(i - 1, UserSahar, UserIftar)]

\* createSampleCalendar: thirty days of March, sahar moving earlier and iftar
\* later by one minute a day.
SampleDays ==
    [i \in 1 .. 30 |->
        LET dayOffset == i - 1
            saharMinute == IF 30 - dayOffset >= 0 THEN (30 - dayOffset) % 60
                           ELSE 0 - ((dayOffset - 30) % 60)
            saharHour == 5 + ((30 - dayOffset) \div 60)
            iftarMinute == (30 + dayOffset) % 60
            iftarHour == 18 + ((30 + dayOffset) \div 60)
            absMinute == IF saharMinute < 0 THEN 0 - saharMinute ELSE saharMinute
        IN [date |-> <<i, 3>>,
            saharTime |-> <<saharHour, absMinute>>,
            iftarTime |-> <<iftarHour, iftarMinute>>]]

\* getActiveCalendarId / getActiveCalendar: the calendar the stored id names,
\* or none.
getActiveCalendar(cals, active) ==
    IF active = <<>> THEN <<>>
    ELSE LET found == {c \in cals : c.id = active[1]}
         IN IF found = {} THEN <<>> ELSE <<CHOOSE c \in found : TRUE>>

\* getTodayData: the first day of the active calendar dated today.
getTodayData(cals, active, t) ==
    LET calendar == getActiveCalendar(cals, active)
    IN IF calendar = <<>> THEN <<>>
       ELSE LET days == calendar[1].days
                hits == {i \in 1 .. Len(days) : days[i].date = todayStr(t)}
            IN IF hits = {} THEN <<>>
               ELSE <<days[CHOOSE i \in hits : \A j \in hits : i <= j]>>

(***************************************************************************)
(* The state a handler of the main context works on, as one record, so     *)
(* that a handler is the composition of the functions it calls.            *)
(***************************************************************************)
\* An entry of a handler's trace: the function that acted, its tag or type, and
\* its text as a sequence of <<template, number>> pairs.
Ev(op, tag, body) == [op |-> op, tag |-> tag, body |-> body]

Main ==
    [alarmSettings |-> alarmSettings,
     nextAlarmData |-> nextAlarmData,
     alarmTimers |-> alarmTimers,
     calls |-> calls,
     trace |-> <<>>,
     life |-> life,
     fault |-> "none"]

Commit(m) ==
    /\ alarmSettings' = m.alarmSettings
    /\ nextAlarmData' = m.nextAlarmData
    /\ alarmTimers' = m.alarmTimers
    /\ calls' = m.calls
    /\ trace' = m.trace
    /\ life' = m.life

Did(m, op, tag, body) == [m EXCEPT !.trace = Append(@, Ev(op, tag, body))]

\* The entry of checkMissedAlarms or scheduleAlarms: noted in the trace, and in
\* `life` when it is the first of the two this process has entered.
Called(m, fn) ==
    LET noted == Did(m, fn, "", <<>>)
    IN IF noted.life = "" THEN [noted EXCEPT !.life = fn] ELSE noted

(***************************************************************************)
(* Storage helpers of alarms.js.  m.fault names the localStorage method     *)
(* that throws during the handler, "none" when storage works.              *)
(***************************************************************************)
\* storeAlarmData: setItem in a try; a failure is logged and the key keeps
\* its old value.
storeAlarmData(m, data) ==
    IF m.fault = "setItem"
    THEN Did(m, "console.error", "Failed to store alarm data", <<>>)
    ELSE Did([m EXCEPT !.nextAlarmData = <<data>>], "storeAlarmData", "", <<>>)

\* getStoredAlarmData: getItem and JSON.parse in a try; a failure yields null.
getStoredAlarmData(m) == IF m.fault = "getItem" THEN <<>> ELSE m.nextAlarmData

\* Mutant of clearStoredAlarmData: the key is not removed.
clearStoredAlarmData_KeepsKey(m) == Did(m, "clearStoredAlarmData", "", <<>>)

\* clearStoredAlarmData: removeItem on the record's key.
clearStoredAlarmData(m) ==
    Did([m EXCEPT !.nextAlarmData = <<>>], "clearStoredAlarmData", "", <<>>)

DefaultSettings == [enabled |-> FALSE, saharMinutes |-> 15, iftarMinutes |-> 15]

getAlarmSettings(m) ==
    IF m.alarmSettings = <<>> THEN DefaultSettings ELSE m.alarmSettings[1]

(***************************************************************************)
(* UI sinks and notification delivery.                                     *)
(***************************************************************************)
showToast(m, message, type) == Did(m, "showToast", type, message)

updateAlarmStatus(m) == Did(m, "updateAlarmStatus", "", <<>>)

\* Mutant of showNotification: the Notification is constructed whatever the
\* permission is.
showNotification_IgnoresPermission(m, title, body, tag) ==
    Did(Did(m, "showNotification", tag, body), "Notification", tag, <<<<title, 0>>>> \o body)

\* showNotification: a Notification is constructed only with permission
\* 'granted'; otherwise the call returns after logging.
showNotification(m, title, body, tag) ==
    LET called == Did(m, "showNotification", tag, body)
    IN IF permission # "granted" THEN called
       ELSE Did(called, "Notification", tag, <<<<title, 0>>>> \o body)

\* Mutant of showAlarmNotification: the toast is raised on the direct path
\* only.
showAlarmNotification_ToastOnFallback(m, alarm, controller) ==
    IF controller
    THEN Did(m, "postMessage", alarm.type, <<<<alarm.title, 0>>>> \o alarm.message)
    ELSE showToast(showNotification(m, alarm.title, alarm.message, alarm.type),
                   alarm.message, "info")

\* showAlarmNotification: through the service-worker controller when there is
\* one, otherwise directly; and always an in-app toast.
showAlarmNotification(m, alarm, controller) ==
    LET sent == IF controller
                THEN Did(m, "postMessage", alarm.type, <<<<alarm.title, 0>>>> \o alarm.message)
                ELSE showNotification(m, alarm.title, alarm.message, alarm.type)
    IN showToast(sent, alarm.message, "info")

(***************************************************************************)
(* scheduleAlarms.                                                         *)
(***************************************************************************)
\* Mutant of AfterNow: an alarm at `now` itself is admitted.
AfterNow_OrEqual(time, now) == time >= now

\* The comparisons `time > now` that admit an alarm to the plan.
AfterNow(time, now) == time > now

\* The alarms computed from the `now`, the day data and the settings a call
\* has read, in the order the code pushes them.
PlanAlarms(now, todayData, settings) ==
    LET saharTime == setHours(now, todayData.saharTime)
        saharAlarmTime == saharTime - settings.saharMinutes * 60000
        iftarTime == setHours(now, todayData.iftarTime)
        iftarAlarmTime == iftarTime - settings.iftarMinutes * 60000
        saharPre == [type |-> "sahar-pre", time |-> saharAlarmTime,
                     message |-> <<<<"Sahar ends in ${n} minutes", settings.saharMinutes>>>>,
                     title |-> "Sahar Reminder"]
        sahar == [type |-> "sahar", time |-> saharTime,
                  message |-> <<<<"Time for Sahar! End your meal now.", 0>>>>,
                  title |-> "Sahar Time"]
        iftarPre == [type |-> "iftar-pre", time |-> iftarAlarmTime,
                     message |-> <<<<"Iftar begins in ${n} minutes", settings.iftarMinutes>>>>,
                     title |-> "Iftar Reminder"]
        iftar == [type |-> "iftar", time |-> iftarTime,
                  message |-> <<<<"Time for Iftar! Break your fast.", 0>>>>,
                  title |-> "Iftar Time"]
    IN (IF AfterNow(saharAlarmTime, now) THEN <<saharPre>> ELSE <<>>)
       \o (IF AfterNow(saharTime, now) THEN <<sahar>> ELSE <<>>)
       \o (IF AfterNow(iftarAlarmTime, now) THEN <<iftarPre>> ELSE <<>>)
       \o (IF AfterNow(iftarTime, now) THEN <<iftar>> ELSE <<>>)

\* clearAlarms: clearTimeout on every id of alarmTimers, then an empty list.
\* alarmTimers holds the pending timers only: the id of a fired timer stays in
\* the code's array, where clearTimeout on it does nothing.
clearAlarms(m) == Did([m EXCEPT !.alarmTimers = <<>>], "clearAlarms", "", <<>>)

\* setTimeout(() => triggerAlarm(alarm), alarm.time - now) at the present
\* clock; the timer keeps the alarm and the `now` its delay was taken from.
setTimer(alarm, now) == [alarm |-> alarm, now |-> now, setAt |-> clock]

Due(timer) == timer.setAt + (timer.alarm.time - timer.now)

\* The record scheduleAlarms stores for a plan.
PlanRecord(alarms, calendar, now) ==
    [alarms |-> [i \in 1 .. Len(alarms) |->
                    [type |-> alarms[i].type,
                     time |-> toISOString(alarms[i].time),
                     triggered |-> FALSE]],
     calendarId |-> IF calendar = <<>> THEN <<>> ELSE <<calendar[1].id>>,
     date |-> toDateString(now)]

\* Mutant of scheduleAlarmsBegin: the disabled branch returns without
\* removing the stored record.
scheduleAlarmsBegin_KeepsRecord(m) ==
    LET m1 == clearAlarms(Called(m, "scheduleAlarms"))
        settings == getAlarmSettings(m1)
    IN IF ~settings.enabled THEN m1
       ELSE [m1 EXCEPT !.calls =
                Append(@, [pc |-> "getTodayData", settings |-> settings,
                           todayData |-> <<>>, now |-> 0])]

\* scheduleAlarms up to its first await: cancel, read the settings, and either
\* drop the record (alarms disabled) or suspend at getTodayData.
scheduleAlarmsBegin(m) ==
    LET m1 == clearAlarms(Called(m, "scheduleAlarms"))
        settings == getAlarmSettings(m1)
    IN IF ~settings.enabled THEN clearStoredAlarmData(m1)
       ELSE [m1 EXCEPT !.calls =
                Append(@, [pc |-> "getTodayData", settings |-> settings,
                           todayData |-> <<>>, now |-> 0])]

\* Mutant of scheduleAlarmsToday: without data for today the stored record is
\* removed as in the disabled branch.
scheduleAlarmsToday_DropsRecord(m, call) ==
    LET todayData == getTodayData(calendars, activeCalendarId, clock)
    IN IF todayData = <<>> THEN clearStoredAlarmData(m)
       ELSE [m EXCEPT !.calls =
                Append(@, [call EXCEPT !.pc = "getActiveCalendar",
                                       !.todayData = todayData, !.now = clock])]

\* scheduleAlarms from getTodayData's answer to its second await: return when
\* there is no data for today, otherwise read `now` and suspend at
\* getActiveCalendar.
scheduleAlarmsToday(m, call) ==
    LET todayData == getTodayData(calendars, activeCalendarId, clock)
    IN IF todayData = <<>> THEN Did(m, "log", "No calendar data for today", <<>>)
       ELSE [m EXCEPT !.calls =
                Append(@, [call EXCEPT !.pc = "getActiveCalendar",
                                       !.todayData = todayData, !.now = clock])]

\* scheduleAlarms from getActiveCalendar's answer to its end: compute the
\* alarms, arm a timer for each, store the record when there is an alarm.
scheduleAlarmsArm(m, call) ==
    LET calendar == getActiveCalendar(calendars, activeCalendarId)
        alarms == PlanAlarms(call.now, call.todayData[1], call.settings)
        armed == [m EXCEPT !.alarmTimers =
                     @ \o [i \in 1 .. Len(alarms) |-> setTimer(alarms[i], call.now)]]
        m1 == Did(armed, "setTimeout", "", [i \in 1 .. Len(alarms) |-> <<alarms[i].type, 0>>])
    IN IF Len(alarms) > 0
       THEN storeAlarmData(m1, PlanRecord(alarms, calendar, call.now))
       ELSE m1

(***************************************************************************)
(* triggerAlarm.                                                           *)
(***************************************************************************)
\* stored.alarms.find(a => a.type === type): the index of the first entry of
\* that type, 0 when there is none.
FindType(alarms, type) ==
    LET hits == {i \in 1 .. Len(alarms) : alarms[i].type = type}
    IN IF hits = {} THEN 0 ELSE CHOOSE i \in hits : \A j \in hits : i <= j

\* Mutant of triggerAlarm: the record is read and written first, outside any
\* try, so that a storage failure ends the callback before the notification.
triggerAlarm_StorageFirst(m, alarm, controller) ==
    LET stored == m.nextAlarmData
        i == IF stored = <<>> THEN 0 ELSE FindType(stored[1].alarms, alarm.type)
        m1 == IF i = 0 THEN m
              ELSE storeAlarmData(m, [stored[1] EXCEPT !.alarms[i].triggered = TRUE])
    IN IF m.fault # "none" THEN Did(m, "throw", "", <<>>)
       ELSE updateAlarmStatus(showAlarmNotification(m1, alarm, controller))

\* triggerAlarm: notify, mark the first stored entry of the alarm's type,
\* refresh the status line.
triggerAlarm(m, alarm, controller) ==
    LET m1 == showAlarmNotification(m, alarm, controller)
        stored == getStoredAlarmData(m1)
        i == IF stored = <<>> THEN 0 ELSE FindType(stored[1].alarms, alarm.type)
        m2 == IF i = 0 THEN m1
              ELSE storeAlarmData(m1, [stored[1] EXCEPT !.alarms[i].triggered = TRUE])
    IN updateAlarmStatus(m2)

(***************************************************************************)
(* checkMissedAlarms.                                                      *)
(***************************************************************************)
\* Mutant of InWindow: the window's far edge is included.
InWindow_Inclusive(timeDiff) == timeDiff > 0 /\ timeDiff <= MAX_MISSED_ALARM_AGE

\* The window test on timeDiff = now - alarmTime.
InWindow(timeDiff) == timeDiff > 0 /\ timeDiff < MAX_MISSED_ALARM_AGE

\* Mutant of IsMissed: the triggered flag of the entry is not read.
IsMissed_IgnoresFlag(entry, now) == InWindow(now - DateOf(entry.time))

\* The entries the forEach pushes to missedAlarms and marks triggered.
IsMissed(entry, now) == ~entry.triggered /\ InWindow(now - DateOf(entry.time))

\* `${a.type === 'sahar' ? 'Sahar' : 'Iftar'} alarm (${a.minutesAgo} min ago)`
MissedLabel(type) == IF type = "sahar" THEN "Sahar" ELSE "Iftar"

\* Mutant of checkMissedAlarms: the notification names the last missed entry
\* instead of the first.
checkMissedAlarms_LastMiss(m) ==
    LET m0 == Called(m, "checkMissedAlarms")
        slot == getStoredAlarmData(m0)
    IN IF slot = <<>> THEN m0
       ELSE
        LET stored == slot[1]
            now == clock
            missed == SelectSeq(stored.alarms, LAMBDA a : IsMissed(a, now))
            missedAlarms ==
                [i \in 1 .. Len(missed) |->
                    [type |-> missed[i].type,
                     time |-> DateOf(missed[i].time),
                     minutesAgo |-> (now - DateOf(missed[i].time)) \div 60000]]
            marked ==
                [stored EXCEPT !.alarms =
                    [i \in 1 .. Len(stored.alarms) |->
                        IF IsMissed(stored.alarms[i], now)
                        THEN [stored.alarms[i] EXCEPT !.triggered = TRUE]
                        ELSE stored.alarms[i]]]
            m1 == storeAlarmData(m0, marked)
            messages == [i \in 1 .. Len(missedAlarms) |->
                            <<MissedLabel(missedAlarms[i].type), missedAlarms[i].minutesAgo>>]
            mostRecent == missedAlarms[Len(missedAlarms)]
            m2 == IF Len(missedAlarms) > 0
                  THEN showNotification(showToast(m1, messages, "warning"),
                                        "Missed Alarm",
                                        <<<<"You missed the ${type} alarm", 0>>,
                                          <<mostRecent.type, 0>>>>,
                                        "missed-alarm")
                  ELSE m1
            today == toDateString(clock)
        IN IF stored.date # today THEN clearStoredAlarmData(m2) ELSE m2

\* checkMissedAlarms: mark the untriggered entries inside the window, write
\* the record back, raise one toast listing them and ask for one notification
\* naming the first of them, then remove a record dated another day.
checkMissedAlarms(m) ==
    LET m0 == Called(m, "checkMissedAlarms")
        slot == getStoredAlarmData(m0)
    IN IF slot = <<>> THEN m0
       ELSE
        LET stored == slot[1]
            now == clock
            missed == SelectSeq(stored.alarms, LAMBDA a : IsMissed(a, now))
            missedAlarms ==
                [i \in 1 .. Len(missed) |->
                    [type |-> missed[i].type,
                     time |-> DateOf(missed[i].time),
                     minutesAgo |-> (now - DateOf(missed[i].time)) \div 60000]]
            marked ==
                [stored EXCEPT !.alarms =
                    [i \in 1 .. Len(stored.alarms) |->
                        IF IsMissed(stored.alarms[i], now)
                        THEN [stored.alarms[i] EXCEPT !.triggered = TRUE]
                        ELSE stored.alarms[i]]]
            m1 == storeAlarmData(m0, marked)
            messages == [i \in 1 .. Len(missedAlarms) |->
                            <<MissedLabel(missedAlarms[i].type), missedAlarms[i].minutesAgo>>]
            mostRecent == missedAlarms[1]
            m2 == IF Len(missedAlarms) > 0
                  THEN showNotification(showToast(m1, messages, "warning"),
                                        "Missed Alarm",
                                        <<<<"You missed the ${type} alarm", 0>>,
                                          <<mostRecent.type, 0>>>>,
                                        "missed-alarm")
                  ELSE m1
            today == toDateString(clock)
        IN IF stored.date # today THEN clearStoredAlarmData(m2) ELSE m2

(***************************************************************************)
(* initAlarmSystem, saveSettings, clearAllData.                            *)
(***************************************************************************)
\* Mutant of initAlarmSystem: the plan is started before the recovery.
initAlarmSystem_PlanFirst(m) ==
    LET settings == getAlarmSettings(m)
        m1 == IF settings.enabled THEN scheduleAlarmsBegin(m) ELSE m
    IN checkMissedAlarms(m1)

\* initAlarmSystem without its setInterval: recover missed alarms, then plan
\* when alarms are enabled.
initAlarmSystem(m) ==
    LET m1 == checkMissedAlarms(m)
        settings == getAlarmSettings(m1)
    IN IF settings.enabled THEN scheduleAlarmsBegin(m1) ELSE m1

\* The characters of the decimal digits, and the place of a character among
\* them (0 when it is none).
Numerals == <<"0", "1", "2", "3", "4", "5", "6", "7", "8", "9">>
NumeralAt(c) ==
    LET hits == {k \in 1 .. 10 : Numerals[k] = c}
    IN IF hits = {} THEN 0 ELSE CHOOSE k \in hits : TRUE

\* parseInt(text) on a text given as its characters: leading blanks are
\* skipped, one sign is taken, then the longest run of digits is read and the
\* rest ignored.  <<>> stands for NaN (no digit read), <<n>> for the number n.
parseInt(text) ==
    LET blanks == Cardinality({k \in 1 .. Len(text) : \A j \in 1 .. k : text[j] = " "})
        signed == blanks < Len(text) /\ text[blanks + 1] \in {"-", "+"}
        start == IF signed THEN blanks + 2 ELSE blanks + 1
        run == Cardinality({k \in start .. Len(text) :
                               \A j \in start .. k : NumeralAt(text[j]) # 0})
        value[k \in 0 .. run] ==
            IF k = 0 THEN 0
            ELSE value[k - 1] * 10 + (NumeralAt(text[start + k - 1]) - 1)
    IN IF run = 0 THEN <<>>
       ELSE IF signed /\ text[blanks + 1] = "-" THEN <<0 - value[run]>>
       ELSE <<value[run]>>

\* parseInt(value) || 15 on parseInt's result: NaN and 0 are falsy.
ParseMinutes(raw) == IF raw = <<>> \/ raw[1] = 0 THEN 15 ELSE raw[1]

\* Mutant of Max: the floor is not applied.
Max_NoFloor(a, b) == b

Max(a, b) == IF a >= b THEN a ELSE b
Min(a, b) == IF a <= b THEN a ELSE b

\* Mutant of FormSettings: the parsed minutes are stored unclamped.
FormSettings_NoClamp(enabled, saharRaw, iftarRaw) ==
    [enabled |-> enabled,
     saharMinutes |-> ParseMinutes(saharRaw),
     iftarMinutes |-> ParseMinutes(iftarRaw)]

\* The settings object saveSettings builds from the form.
FormSettings(enabled, saharRaw, iftarRaw) ==
    [enabled |-> enabled,
     saharMinutes |-> Max(1, Min(60, ParseMinutes(saharRaw))),
     iftarMinutes |-> Max(1, Min(60, ParseMinutes(iftarRaw)))]

\* saveSettings up to its await (enabled) or to its end (disabled).
saveSettingsBegin(m, enabled, saharText, iftarText) ==
    LET settings == FormSettings(enabled, parseInt(saharText), parseInt(iftarText))
        m1 == Did([m EXCEPT !.alarmSettings = <<settings>>], "setItem", "alarmSettings", <<>>)
    IN IF enabled THEN Did(m1, "requestPermission", "", <<>>)
       ELSE updateAlarmStatus(showToast(m1, <<<<"Settings saved", 0>>>>, "success"))

\* saveSettings after Notification.requestPermission() has answered.
saveSettingsGranted(m, answer) ==
    IF answer # "granted"
    THEN showToast(m, <<<<"Notification permission required for alarms", 0>>>>, "error")
    ELSE updateAlarmStatus(
            showToast(scheduleAlarmsBegin(m), <<<<"Settings saved", 0>>>>, "success"))

\* clearAllData after both confirmations: on the alarm side it removes the
\* settings key and nothing else.
clearAllData(m) ==
    LET m1 == Did([m EXCEPT !.alarmSettings = <<>>], "removeItem", "alarmSettings", <<>>)
    IN showToast(m1, <<<<"All data cleared", 0>>>>, "success")

(***************************************************************************)
(* The clock and the inputs.                                               *)
(***************************************************************************)
At(h, m, s) == h * HOUR + m * MINUTE + s * SECOND

\* The times of day the clock is observed at: 25 minutes after the 23:45
\* alarm of the day before, before the alarms of the day, at the 05:15 alarm,
\* and at ages 59:59 and 60:00 of it.
TimesOfDay ==
    {At(0, 10, 0), At(4, 0, 0), At(5, 15, 0), At(6, 14, 59), At(6, 15, 0)}

\* The observed instants: the model ends ten minutes into day MaxDay.
Horizon == MaxDay * DAY + At(0, 10, 0)
Instants == {t \in {d * DAY + tod : d \in Days, tod \in TimesOfDay} : t <= Horizon}

\* The ways localStorage fails during a timer callback: getItem throws, or
\* setItem throws.
StorageFaults == {"getItem", "setItem"}

\* What the user submits in the settings form: the checkbox and the texts
\* of the two minute fields, as their characters.  Alarms on with both
\* fields empty or with 5 in the sahar field, or alarms off with both fields
\* empty.
FormInputs ==
    {<<TRUE, <<>>, <<>>>>, <<TRUE, <<"5">>, <<>>>>, <<FALSE, <<>>, <<>>>>}

(***************************************************************************)
(* Initial state: an installed app with one calendar, selected, that the   *)
(* user has entered; notifications allowed, no settings saved, no page     *)
(* open.                                                                   *)
(***************************************************************************)
Init ==
    /\ clock = At(4, 0, 0)
    /\ permission = "granted"
    /\ calendars = {[id |-> 1, days |-> UserDays]}
    /\ activeCalendarId = <<1>>
    /\ nextId = 2
    /\ alarmSettings = <<>>
    /\ nextAlarmData = <<>>
    /\ running = FALSE
    /\ uiReady = FALSE
    /\ firstCheck = <<>>
    /\ intervalDue = <<>>
    /\ alarmTimers = <<>>
    /\ calls = <<>>
    /\ saves = 0
    /\ trace = <<>>
    /\ life = ""
    /\ worker = "v2"
    /\ cache = {}
    /\ response = <<>>
    /\ posted = <<>>
    /\ handled = 0
    /\ workerTrace = <<>>
    /\ importData = <<>>
    /\ validation = <<>>
    /\ pendingImportData = <<>>

(***************************************************************************)
(* Actions.                                                                *)
(***************************************************************************)
\* The tasks of a live page that are ready now: a due timer, the due
\* interval, an IndexedDB answer.  They take milliseconds, the observed
\* instants are minutes apart, so they run before the clock is observed again.
\* A permission prompt can stay unanswered for any time; without a prompt the
\* permission request answers at once.
TaskReady ==
    /\ running
    /\ \/ ~uiReady
       \/ saves > 0 /\ permission # "default"
       \/ firstCheck # <<>>
       \/ calls # <<>>
       \/ intervalDue # <<>> /\ clock >= intervalDue[1]
       \/ \E i \in 1 .. Len(alarmTimers) : clock >= Due(alarmTimers[i])

\* The due times of a live page's pending timers and of its interval.
PendingDues ==
    IF ~running THEN {}
    ELSE {Due(alarmTimers[i]) : i \in 1 .. Len(alarmTimers)}
         \cup {intervalDue[i] : i \in 1 .. Len(intervalDue)}

\* Time passes; no handler runs.  The clock is next observed at a later
\* instant, and not later than the first instant at which a pending timer is
\* due: a live page does not sleep through its timers.
Tick ==
    /\ ~TaskReady
    /\ \E t \in Instants :
          /\ t > clock
          /\ \A due \in PendingDues, g \in Instants : (g >= due /\ g > clock) => t <= g
          /\ clock' = t
    /\ trace' = <<>>
    /\ UNCHANGED <<workerVars, importVars>>
    /\ UNCHANGED <<permission, calendars, activeCalendarId, nextId, alarmSettings,
                   nextAlarmData, running, uiReady, firstCheck, intervalDue,
                   alarmTimers, calls, saves, life>>

\* DOMContentLoaded: initAlarmSystem runs and sets the hourly interval;
\* initApp starts and suspends at the database.
PageLoad ==
    /\ ~running
    /\ running' = TRUE
    /\ Commit(Did(initAlarmSystem(Main), "setInterval", "", <<>>))
    /\ intervalDue' = <<clock + REPLAN_INTERVAL>>
    /\ UNCHANGED <<workerVars, importVars>>
    /\ UNCHANGED <<clock, permission, calendars, activeCalendarId, nextId, uiReady,
                   firstCheck, saves>>

\* initApp once the database has answered: a sample calendar for an empty
\* store, the screens, and a second checkMissedAlarms.
InitApp ==
    /\ running /\ ~uiReady
    /\ uiReady' = TRUE
    /\ IF calendars = {}
       THEN /\ calendars' = {[id |-> nextId, days |-> SampleDays]}
            /\ nextId' = nextId + 1
            /\ firstCheck' = <<nextId>>
            /\ Commit(checkMissedAlarms(
                   showToast(Main, <<<<"Welcome! A sample calendar has been created", 0>>>>, "info")))
       ELSE /\ UNCHANGED <<calendars, nextId, firstCheck>>
            /\ Commit(checkMissedAlarms(Main))
    /\ UNCHANGED <<workerVars, importVars>>
    /\ UNCHANGED <<clock, permission, activeCalendarId, running, intervalDue, saves>>

\* createCalendar's deferred check: the new calendar becomes the active one
\* when it is the only one.
FirstCalendarCheck ==
    /\ running /\ firstCheck # <<>>
    /\ firstCheck' = <<>>
    /\ activeCalendarId' = IF Cardinality(calendars) = 1 THEN firstCheck ELSE activeCalendarId
    /\ UNCHANGED <<workerVars, importVars>>
    /\ UNCHANGED <<clock, permission, calendars, nextId, alarmSettings, nextAlarmData,
                   running, uiReady, intervalDue, alarmTimers, calls, saves, trace, life>>

SaveSettings ==
    /\ running /\ uiReady
    /\ \E form \in FormInputs :
          /\ form[1] => saves + Len(calls) < MaxCalls
          /\ saves' = IF form[1] THEN saves + 1 ELSE saves
          /\ Commit(saveSettingsBegin(Main, form[1], form[2], form[3]))
    /\ UNCHANGED <<workerVars, importVars>>
    /\ UNCHANGED <<clock, permission, calendars, activeCalendarId, nextId, running,
                   uiReady, firstCheck, intervalDue>>

\* Notification.requestPermission() answers: the standing permission, or the
\* user's answer to the prompt (granted, denied, or dismissed).
PermissionAnswered ==
    /\ running /\ saves > 0
    /\ \E answer \in (IF permission = "default" THEN {"granted", "denied", "default"}
                      ELSE {permission}) :
          /\ permission' = answer
          /\ Commit(saveSettingsGranted(Main, answer))
    /\ saves' = saves - 1
    /\ UNCHANGED <<workerVars, importVars>>
    /\ UNCHANGED <<clock, calendars, activeCalendarId, nextId, running, uiReady,
                   firstCheck, intervalDue>>

ClearAllData ==
    /\ running /\ uiReady
    /\ nextId <= MaxCalendarId
    /\ calendars' = {}
    /\ activeCalendarId' = <<>>
    /\ Commit(clearAllData(Main))
    /\ UNCHANGED <<workerVars, importVars>>
    /\ UNCHANGED <<clock, permission, nextId, running, uiReady, firstCheck,
                   intervalDue, saves>>

\* Mutant of ReplanTick: the interval calls scheduleAlarms without reading
\* the settings.
ReplanTick_IgnoresSettings ==
    /\ running /\ intervalDue # <<>> /\ clock >= intervalDue[1]
    /\ \A i \in 1 .. Len(alarmTimers) : Due(alarmTimers[i]) >= intervalDue[1]
    /\ saves + Len(calls) < MaxCalls
    /\ intervalDue' = <<clock + REPLAN_INTERVAL>>
    /\ Commit(scheduleAlarmsBegin(Main))
    /\ UNCHANGED <<workerVars, importVars>>
    /\ UNCHANGED <<clock, permission, calendars, activeCalendarId, nextId, running,
                   uiReady, firstCheck, saves>>

\* The hourly interval of initAlarmSystem.  Timers that are due run in the
\* order of their due times, the interval among them.
ReplanTick ==
    /\ running /\ intervalDue # <<>> /\ clock >= intervalDue[1]
    /\ \A i \in 1 .. Len(alarmTimers) : Due(alarmTimers[i]) >= intervalDue[1]
    /\ saves + Len(calls) < MaxCalls
    /\ intervalDue' = <<clock + REPLAN_INTERVAL>>
    /\ Commit(IF getAlarmSettings(Main).enabled THEN scheduleAlarmsBegin(Main) ELSE Main)
    /\ UNCHANGED <<workerVars, importVars>>
    /\ UNCHANGED <<clock, permission, calendars, activeCalendarId, nextId, running,
                   uiReady, firstCheck, saves>>

\* The oldest suspended scheduleAlarms call gets getTodayData's answer.
ResumeToday ==
    /\ running /\ calls # <<>> /\ Head(calls).pc = "getTodayData"
    /\ Commit(scheduleAlarmsToday([Main EXCEPT !.calls = Tail(@)], Head(calls)))
    /\ UNCHANGED <<workerVars, importVars>>
    /\ UNCHANGED <<clock, permission, calendars, activeCalendarId, nextId, running,
                   uiReady, firstCheck, intervalDue, saves>>

\* The oldest suspended scheduleAlarms call gets getActiveCalendar's answer.
ResumeArm ==
    /\ running /\ calls # <<>> /\ Head(calls).pc = "getActiveCalendar"
    /\ Commit(scheduleAlarmsArm([Main EXCEPT !.calls = Tail(@)], Head(calls)))
    /\ UNCHANGED <<workerVars, importVars>>
    /\ UNCHANGED <<clock, permission, calendars, activeCalendarId, nextId, running,
                   uiReady, firstCheck, intervalDue, saves>>

Remove(seq, i) == SubSeq(seq, 1, i - 1) \o SubSeq(seq, i + 1, Len(seq))

\* The pending timer a due-order host runs next: it is due, nothing is due
\* before it, and of equally due timers it was set first.
NextDue(i) ==
    /\ clock >= Due(alarmTimers[i])
    /\ intervalDue # <<>> => intervalDue[1] >= Due(alarmTimers[i])
    /\ \A j \in 1 .. Len(alarmTimers) :
          \/ Due(alarmTimers[j]) > Due(alarmTimers[i])
          \/ Due(alarmTimers[j]) = Due(alarmTimers[i]) /\ j >= i

\* A timer fires while localStorage works.  The fired timer leaves the list
\* of pending timers.
TimerFires ==
    /\ running
    /\ \E i \in 1 .. Len(alarmTimers), controller \in BOOLEAN :
          /\ NextDue(i)
          /\ Commit(triggerAlarm([Main EXCEPT !.alarmTimers = Remove(@, i)],
                                 alarmTimers[i].alarm, controller))
    /\ UNCHANGED <<workerVars, importVars>>
    /\ UNCHANGED <<clock, permission, calendars, activeCalendarId, nextId, running,
                   uiReady, firstCheck, intervalDue, saves>>

\* A timer fires while localStorage fails.
TimerFails ==
    /\ running
    /\ \E i \in 1 .. Len(alarmTimers), controller \in BOOLEAN, fault \in StorageFaults :
          /\ NextDue(i)
          /\ Commit(triggerAlarm([Main EXCEPT !.alarmTimers = Remove(@, i),
                                               !.fault = fault],
                                 alarmTimers[i].alarm, controller))
    /\ UNCHANGED <<workerVars, importVars>>
    /\ UNCHANGED <<clock, permission, calendars, activeCalendarId, nextId, running,
                   uiReady, firstCheck, intervalDue, saves>>

\* The page is closed or killed: timers, suspended calls and the interval die
\* with it; the stores stay.
PageClose ==
    /\ running
    /\ running' = FALSE
    /\ uiReady' = FALSE
    /\ firstCheck' = <<>>
    /\ intervalDue' = <<>>
    /\ alarmTimers' = <<>>
    /\ calls' = <<>>
    /\ saves' = 0
    /\ trace' = <<>>
    /\ life' = ""
    /\ UNCHANGED <<workerVars, importVars>>
    /\ UNCHANGED <<clock, permission, calendars, activeCalendarId, nextId,
                   alarmSettings, nextAlarmData>>

Next ==
    \/ Tick
    \/ PageLoad
    \/ InitApp
    \/ FirstCalendarCheck
    \/ SaveSettings
    \/ PermissionAnswered
    \/ ClearAllData
    \/ ReplanTick
    \/ ResumeToday
    \/ ResumeArm
    \/ TimerFires
    \/ PageClose

Spec == Init /\ [][Next]_vars

(***************************************************************************)
(* A second specification: one process of a returning user, over a wide    *)
(* range of clock readings, event times and saved offsets, with every      *)
(* permission state and with localStorage failures in the timer callback.  *)
(* The page is loaded once and stays open; the clock moves from due time   *)
(* to due time.                                                            *)
(***************************************************************************)
\* The clock readings at page load.
PlanNows == {At(4, 0, 0), At(5, 15, 0), At(6, 0, 0), At(6, 14, 59)}

\* The sahar and iftar times of the calendar: a usual day, a day whose two
\* events are half an hour apart, and a day with sahar just after midnight.
PlanTimes ==
    {<<<<5, 30>>, <<18, 45>>>>, <<<<5, 30>>, <<6, 0>>>>, <<<<0, 10>>, <<23, 45>>>>}

\* What the user had typed in a minute field when the settings were saved:
\* nothing, 0, -5, or 100.
PlanRaws == {<<>>, <<0>>, <<-5>>, <<100>>}

PlanInit ==
    /\ clock \in PlanNows
    /\ permission \in {"default", "granted", "denied"}
    /\ \E times \in PlanTimes :
          calendars = {[id |-> 1,
                        days |-> [i \in 1 .. MaxDay + 1 |-> Day(i - 1, times[1], times[2])]]}
    /\ activeCalendarId = <<1>>
    /\ nextId = 2
    /\ \E saharRaw \in PlanRaws, iftarRaw \in PlanRaws :
          alarmSettings = <<FormSettings(TRUE, saharRaw, iftarRaw)>>
    /\ nextAlarmData = <<>>
    /\ running = FALSE
    /\ uiReady = FALSE
    /\ firstCheck = <<>>
    /\ intervalDue = <<>>
    /\ alarmTimers = <<>>
    /\ calls = <<>>
    /\ saves = 0
    /\ trace = <<>>
    /\ life = ""
    /\ worker = "v2"
    /\ cache = {}
    /\ response = <<>>
    /\ posted = <<>>
    /\ handled = 0
    /\ workerTrace = <<>>
    /\ importData = <<>>
    /\ validation = <<>>
    /\ pendingImportData = <<>>

\* Time passes until the next timer or the interval is due.
PlanTick ==
    /\ ~TaskReady
    /\ PendingDues # {}
    /\ LET next == CHOOSE due \in PendingDues : \A other \in PendingDues : due <= other
       IN /\ next <= Horizon
          /\ clock' = next
    /\ trace' = <<>>
    /\ UNCHANGED <<workerVars, importVars>>
    /\ UNCHANGED <<permission, calendars, activeCalendarId, nextId, alarmSettings,
                   nextAlarmData, running, uiReady, firstCheck, intervalDue,
                   alarmTimers, calls, saves, life>>

PlanNext ==
    \/ PlanTick
    \/ PageLoad
    \/ InitApp
    \/ ReplanTick
    \/ ResumeToday
    \/ ResumeArm
    \/ TimerFires
    \/ TimerFails

PlanSpec == PlanInit /\ [][PlanNext]_vars

(***************************************************************************)
(* A third specification: the settings screen of one page process, with    *)
(* every permission state and with arbitrary text in the minute fields.    *)
(* The clock stands at 04:00, before the alarms of the day.                *)
(***************************************************************************)
\* The texts of a minute field: empty, "0", "-5", "100", "7.5", "abc".
FieldTexts ==
    {<<>>, <<"0">>, <<"-", "5">>, <<"1", "0", "0">>, <<"7", ".", "5">>,
     <<"a", "b", "c">>}

\* The forms submitted: any of the texts in the sahar field with the iftar
\* field empty, or 100 and -5 together; alarms on or off.
AnyFormInputs ==
    {<<enabled, text, <<>>>> : enabled \in BOOLEAN, text \in FieldTexts}
    \cup {<<enabled, <<"1", "0", "0">>, <<"-", "5">>>> : enabled \in BOOLEAN}

SaveInit ==
    /\ clock = At(4, 0, 0)
    /\ permission \in {"default", "granted", "denied"}
    /\ calendars = {[id |-> 1, days |-> UserDays]}
    /\ activeCalendarId = <<1>>
    /\ nextId = 2
    /\ alarmSettings = <<>>
    /\ nextAlarmData = <<>>
    /\ running = FALSE
    /\ uiReady = FALSE
    /\ firstCheck = <<>>
    /\ intervalDue = <<>>
    /\ alarmTimers = <<>>
    /\ calls = <<>>
    /\ saves = 0
    /\ trace = <<>>
    /\ life = ""
    /\ worker = "v2"
    /\ cache = {}
    /\ response = <<>>
    /\ posted = <<>>
    /\ handled = 0
    /\ workerTrace = <<>>
    /\ importData = <<>>
    /\ validation = <<>>
    /\ pendingImportData = <<>>

\* The user submits the settings form with any of the texts.
SaveAnySettings ==
    /\ running /\ uiReady
    /\ \E form \in AnyFormInputs :
          /\ form[1] => saves + Len(calls) < MaxCalls
          /\ saves' = IF form[1] THEN saves + 1 ELSE saves
          /\ Commit(saveSettingsBegin(Main, form[1], form[2], form[3]))
    /\ UNCHANGED <<workerVars, importVars>>
    /\ UNCHANGED <<clock, permission, calendars, activeCalendarId, nextId, running,
                   uiReady, firstCheck, intervalDue>>

SaveNext ==
    \/ PageLoad
    \/ InitApp
    \/ SaveAnySettings
    \/ PermissionAnswered
    \/ ResumeToday
    \/ ResumeArm

SaveSpec == SaveInit /\ [][SaveNext]_vars

(***************************************************************************)
(* The service worker.  service-worker.js holds two workers' texts, the    *)
(* one with cache 'ramadan-ready-v1' and the one with 'ramadan-ready-v2';  *)
(* `worker` says which of them is installed.  A request path is a pair     *)
(* <<stem, extension>>.                                                    *)
(***************************************************************************)
STATIC_ASSETS ==
    {<<"/", "">>, <<"/index", ".html">>, <<"/css/styles", ".css">>,
     <<"/js/app", ".js">>, <<"/js/db", ".js">>, <<"/js/alarms", ".js">>,
     <<"/js/file-handler", ".js">>, <<"/manifest", ".json">>,
     <<"/icons/icon-192x192", ".png">>, <<"/icons/icon-512x512", ".png">>}

\* What the handler of a fetch event leaves: the cache, and the answer given
\* to the page (where it came from, and whether fetch was called).
Answer(c, source, fetched) == [cache |-> c, source |-> source, fetched |-> fetched]

\* The requests a cache holds a response for.
Cached(c) == {entry[1] : entry \in c}

\* cache.put(request, response): the response takes the place of the one
\* held for the request.
Put(c, path, body) == {entry \in c : entry[1] # path} \cup {<<path, body>>}

\* A network answer that is a response with status 200: one that came in
\* time, or one that came later than FETCH_TIMEOUT.
Ok(net) == net \in {"200", "late"}

\* Mutant of PutIfOk: the response is stored whatever its status.
PutIfOk_AnyStatus(c, path, net) == Put(c, path, "fetched")

\* The cache.put after a network response: status 200 only.
PutIfOk(c, path, net) == IF Ok(net) THEN Put(c, path, "fetched") ELSE c

\* cacheFirstStrategy: the cached response when there is one; otherwise
\* fetch, whose failure is rethrown.
cacheFirstStrategy(c, path, net) ==
    IF path \in Cached(c) THEN Answer(c, "cache", FALSE)
    ELSE IF net = "down" THEN Answer(c, "error", TRUE)
    ELSE Answer(PutIfOk(c, path, net), "network", TRUE)

\* networkFirstWithCacheFallback: fetch, aborted after FETCH_TIMEOUT; its
\* response when it answers in time; the cached response, or the error,
\* when it fails or is aborted.
networkFirstWithCacheFallback(c, path, net) ==
    IF net \notin {"down", "late"} THEN Answer(PutIfOk(c, path, net), "network", TRUE)
    ELSE IF path \in Cached(c) THEN Answer(c, "cache", TRUE)
    ELSE Answer(c, "error", TRUE)

\* url.pathname.endsWith('.html') || pathname === '/' || pathname === '/index.html'
isHtmlRequest(path) ==
    path[2] = ".html" \/ path = <<"/", "">> \/ path = <<"/index", ".html">>

\* The fetch listener of the v1 text: cache-first for every same-origin GET.
fetchListenerV1(c, request, net) ==
    IF request.method # "GET" \/ ~request.sameOrigin THEN Answer(c, "browser", FALSE)
    ELSE cacheFirstStrategy(c, request.path, net)

\* The fetch listener of the v2 text: network-first for HTML, cache-first
\* for the rest.
fetchListenerV2(c, request, net) ==
    IF request.method # "GET" \/ ~request.sameOrigin THEN Answer(c, "browser", FALSE)
    ELSE IF isHtmlRequest(request.path)
         THEN networkFirstWithCacheFallback(c, request.path, net)
         ELSE cacheFirstStrategy(c, request.path, net)

\* The requests the page makes, and what the network does with one: a 200
\* response, a 404 response, no response, or a 200 response that comes later
\* than FETCH_TIMEOUT.
RequestPaths ==
    {<<"/", "">>, <<"/index", ".html">>, <<"/css/styles", ".css">>, <<"/js/app", ".js">>}
Requests ==
    [method : {"GET", "POST"}, sameOrigin : BOOLEAN, path : RequestPaths]
NetworkOutcomes == {"200", "404", "down", "late"}

WorkerInit ==
    /\ clock = At(4, 0, 0)
    /\ permission = "granted"
    /\ calendars = {[id |-> 1, days |-> UserDays]}
    /\ activeCalendarId = <<1>>
    /\ nextId = 2
    /\ alarmSettings = <<>>
    /\ nextAlarmData = <<>>
    /\ running = FALSE
    /\ uiReady = FALSE
    /\ firstCheck = <<>>
    /\ intervalDue = <<>>
    /\ alarmTimers = <<>>
    /\ calls = <<>>
    /\ saves = 0
    /\ trace = <<>>
    /\ life = ""
    /\ worker \in {"v1", "v2"}
    /\ cache = {}
    /\ response = <<>>
    /\ posted = <<>>
    /\ handled = 0
    /\ workerTrace = <<>>
    /\ importData = <<>>
    /\ validation = <<>>
    /\ pendingImportData = <<>>

\* The install event: cache.addAll(STATIC_ASSETS) with the network up.
Install ==
    /\ ~(STATIC_ASSETS \subseteq Cached(cache))
    /\ cache' = {entry \in cache : entry[1] \notin STATIC_ASSETS}
                 \cup {<<path, "installed">> : path \in STATIC_ASSETS}
    /\ UNCHANGED <<worker, response, posted, handled, workerTrace>>
    /\ UNCHANGED <<pageVars, importVars>>

\* A fetch event.  The answer is noted with the request, with whether the
\* cache held a response for it when the event arrived, and with what the
\* network did when fetch was called.
FetchEvent ==
    /\ \E request \in Requests, net \in NetworkOutcomes :
          LET answer == IF worker = "v1" THEN fetchListenerV1(cache, request, net)
                        ELSE fetchListenerV2(cache, request, net)
          IN /\ cache' = answer.cache
             /\ response' = <<[request |-> request,
                               cached |-> request.path \in Cached(cache),
                               source |-> answer.source,
                               fetched |-> answer.fetched,
                               net |-> IF answer.fetched THEN net ELSE "none"]>>
    /\ UNCHANGED <<worker, posted, handled, workerTrace>>
    /\ UNCHANGED <<pageVars, importVars>>

WorkerNext == Install \/ FetchEvent

WorkerSpec == WorkerInit /\ [][WorkerNext]_vars

(***************************************************************************)
(* Import validation (file-handler.js).  A JSON value is a pair of its     *)
(* kind and its content; a string's content is its characters.             *)
(***************************************************************************)
Undefined == <<"undefined">>
Null == <<"null">>
Str(chars) == <<"string", chars>>
Num(n) == <<"number", n>>
Arr(items) == <<"array", items>>
Obj(fields) == <<"object", fields>>

\* !v is false: v is none of undefined, null, '' and 0.
Truthy(v) == v \notin {Undefined, Null, Str(<<>>), Num(0)}

\* The character is a digit from lo to hi.
DigitIn(c, lo, hi) == NumeralAt(c) # 0 /\ NumeralAt(c) - 1 \in lo .. hi

\* Number() of a text of digits.
NumberOf(chars) ==
    LET value[k \in 0 .. Len(chars)] ==
            IF k = 0 THEN 0 ELSE value[k - 1] * 10 + (NumeralAt(chars[k]) - 1)
    IN value[Len(chars)]

\* isValidDate: /^(0[1-9]|[12][0-9]|3[01])-(0[1-9]|1[0-2])$/, then the ranges
\* of the two numbers.
isValidDate(dateStr) ==
    /\ Len(dateStr) = 5
    /\ \/ dateStr[1] = "0" /\ DigitIn(dateStr[2], 1, 9)
       \/ dateStr[1] \in {"1", "2"} /\ DigitIn(dateStr[2], 0, 9)
       \/ dateStr[1] = "3" /\ DigitIn(dateStr[2], 0, 1)
    /\ dateStr[3] = "-"
    /\ \/ dateStr[4] = "0" /\ DigitIn(dateStr[5], 1, 9)
       \/ dateStr[4] = "1" /\ DigitIn(dateStr[5], 0, 2)
    /\ LET day == NumberOf(SubSeq(dateStr, 1, 2))
           month == NumberOf(SubSeq(dateStr, 4, 5))
       IN day >= 1 /\ day <= 31 /\ month >= 1 /\ month <= 12

\* isValidTime: /^([01]?[0-9]|2[0-3]):([0-5][0-9])$/, then the ranges of the
\* two numbers.  The hour is one digit, or two.
isValidTime(timeStr) ==
    /\ \/ /\ Len(timeStr) = 4
          /\ DigitIn(timeStr[1], 0, 9)
       \/ /\ Len(timeStr) = 5
          /\ \/ DigitIn(timeStr[1], 0, 1) /\ DigitIn(timeStr[2], 0, 9)
             \/ timeStr[1] = "2" /\ DigitIn(timeStr[2], 0, 3)
    /\ LET colon == Len(timeStr) - 2
       IN /\ timeStr[colon] = ":"
          /\ DigitIn(timeStr[colon + 1], 0, 5) /\ DigitIn(timeStr[colon + 2], 0, 9)
          /\ LET hours == NumberOf(SubSeq(timeStr, 1, colon - 1))
                 minutes == NumberOf(SubSeq(timeStr, colon + 1, colon + 2))
             IN hours >= 0 /\ hours <= 23 /\ minutes >= 0 /\ minutes <= 59

\* A validation result.  An error is <<calendar index, day number, message>>,
\* 0 where the message has no such prefix; `threw` marks a TypeError raised
\* instead of a result.
Valid(type, count) ==
    [valid |-> TRUE, threw |-> FALSE, type |-> type, count |-> count, error |-> <<>>]
Invalid(index, day, message) ==
    [valid |-> FALSE, threw |-> FALSE, type |-> "", count |-> 0,
     error |-> <<index, day, message>>]
Threw ==
    [valid |-> FALSE, threw |-> TRUE, type |-> "", count |-> 0, error |-> <<>>]

\* The checks of the loop body on day i, in the code's order: the message of
\* the first that fails, "" when none does, "TypeError" when the entry has
\* no properties to read.
DayCheck(days, i) ==
    IF days[i] \in {Null, Undefined} THEN "TypeError"
    ELSE
     LET day == days[i][2]
     IN IF ~Truthy(day.date) \/ day.date[1] # "string" THEN "Missing date"
        ELSE IF ~Truthy(day.saharTime) \/ day.saharTime[1] # "string"
             THEN "Missing Sahar time"
        ELSE IF ~Truthy(day.iftarTime) \/ day.iftarTime[1] # "string"
             THEN "Missing Iftar time"
        ELSE IF ~isValidDate(day.date[2]) THEN "Invalid date format"
        ELSE IF ~isValidTime(day.saharTime[2]) THEN "Invalid Sahar time"
        ELSE IF ~isValidTime(day.iftarTime[2]) THEN "Invalid Iftar time"
        ELSE IF \E j \in 1 .. i - 1 : days[j][2].date = day.date THEN "Duplicate date"
        ELSE ""

\* validateSingleCalendar(calendar, index); index 0 is `null`.
validateSingleCalendar(calendar, index) ==
    IF ~Truthy(calendar.name) \/ calendar.name[1] # "string"
    THEN Invalid(index, 0, "Missing or invalid calendar name")
    ELSE IF ~Truthy(calendar.year) \/ calendar.year[1] # "number"
    THEN Invalid(index, 0, "Missing or invalid year")
    ELSE IF calendar.days[1] # "array"
    THEN Invalid(index, 0, "Missing days array")
    ELSE IF Len(calendar.days[2]) # 29 /\ Len(calendar.days[2]) # 30
    THEN Invalid(index, 0, "Invalid day count")
    ELSE
     LET days == calendar.days[2]
         RECURSIVE Loop(_)
         Loop(i) ==
             IF i > Len(days) THEN Valid("single", 1)
             ELSE CHOOSE result \in
                     {IF check = "" THEN Loop(i + 1)
                      ELSE IF check = "TypeError" THEN Threw
                      ELSE Invalid(index, i, check) : check \in {DayCheck(days, i)}} : TRUE
     IN Loop(1)

\* validateImportData(data).
validateImportData(data) ==
    IF Truthy(data.calendars) /\ data.calendars[1] = "array"
    THEN LET cals == data.calendars[2]
             RECURSIVE Loop(_)
             Loop(i) ==
                 IF i > Len(cals) THEN Valid("multiple", Len(cals))
                 ELSE CHOOSE result \in
                         {IF calValidation.valid THEN Loop(i + 1) ELSE calValidation :
                             calValidation \in {validateSingleCalendar(cals[i], i)}} : TRUE
         IN IF Len(cals) = 0 THEN Invalid(0, 0, "No calendars found in file")
            ELSE Loop(1)
    ELSE validateSingleCalendar(data, 0)

(***************************************************************************)
(* A fifth specification: the import screen.  A file is chosen and its     *)
(* parsed content validated.                                               *)
(***************************************************************************)
\* The text of day d of month 03 as DD-MM, and a well-formed day entry.
DateText(d) == <<Numerals[(d \div 10) + 1], Numerals[(d % 10) + 1], "-", "0", "3">>
GoodDay(d) ==
    [date |-> Str(DateText(d)),
     saharTime |-> Str(<<"0", "5", ":", "3", "0">>),
     iftarTime |-> Str(<<"1", "8", ":", "4", "5">>)]

\* The ways entry d of a file's days array is off: a missing or non-string
\* field, a date or time outside the format, a one-digit hour, the date of
\* day 1 again, two faults at once, or null in place of the entry.
OddDays(d) ==
    {Obj([GoodDay(d) EXCEPT !.date = Undefined]),
     Obj([GoodDay(d) EXCEPT !.date = Num(5)]),
     Obj([GoodDay(d) EXCEPT !.saharTime = Str(<<>>)]),
     Obj([GoodDay(d) EXCEPT !.iftarTime = Num(1845)]),
     Obj([GoodDay(d) EXCEPT !.date = Str(<<"3", "2", "-", "0", "3">>)]),
     Obj([GoodDay(d) EXCEPT !.date = Str(<<"0", "5", "-", "1", "3">>)]),
     Obj([GoodDay(d) EXCEPT !.date = Str(<<"5", "-", "3">>)]),
     Obj([GoodDay(d) EXCEPT !.saharTime = Str(<<"2", "4", ":", "0", "0">>)]),
     Obj([GoodDay(d) EXCEPT !.saharTime = Str(<<"5", ":", "3", "0">>)]),
     Obj([GoodDay(d) EXCEPT !.saharTime = Str(<<"0", "5", "3", "0">>)]),
     Obj([GoodDay(d) EXCEPT !.iftarTime = Str(<<"1", "8", ":", "6", "0">>)]),
     Obj([GoodDay(d) EXCEPT !.iftarTime = Str(<<"7", ":", "0", "5", " ", "P", "M">>)]),
     Obj([GoodDay(d) EXCEPT !.date = Str(DateText(1))]),
     Obj([GoodDay(d) EXCEPT !.date = Str(<<"3", "2", "-", "0", "3">>),
                            !.iftarTime = Undefined]),
     Null}

\* The days arrays of the files: 28 to 31 well-formed entries, with at most
\* one entry (the first, the second or the last) replaced by an odd one.
DayCounts == {28, 29, 30, 31}
DaysArrays ==
    {Arr([d \in 1 .. n |-> Obj(GoodDay(d))]) : n \in DayCounts}
    \cup {Arr([d \in 1 .. n |-> IF d = at THEN odd ELSE Obj(GoodDay(d))]) :
            n \in DayCounts, at \in {1, 2, 29},
            odd \in UNION {OddDays(d) : d \in {1, 2, 29}}}

CalendarInputs ==
    [name : {Undefined, Str(<<>>), Str(<<"R">>), Num(1)},
     year : {Undefined, Num(0), Num(2026), Str(<<"2", "0", "2", "6">>)},
     days : {Undefined, Str(<<"d">>)} \cup DaysArrays]

\* The calendars of the multi-calendar files: a well-formed one, one without
\* a name, one with a one-digit hour, one with a date outside the format.
SampleCalendars ==
    {[name |-> Str(<<"R">>), year |-> Num(2026),
      days |-> Arr([d \in 1 .. 29 |-> Obj(GoodDay(d))])],
     [name |-> Undefined, year |-> Num(2026),
      days |-> Arr([d \in 1 .. 29 |-> Obj(GoodDay(d))])],
     [name |-> Str(<<"R">>), year |-> Num(2026),
      days |-> Arr([d \in 1 .. 30 |->
                      IF d = 2
                      THEN Obj([GoodDay(d) EXCEPT !.saharTime = Str(<<"5", ":", "3", "0">>)])
                      ELSE Obj(GoodDay(d))])],
     [name |-> Str(<<"R">>), year |-> Num(2026),
      days |-> Arr([d \in 1 .. 30 |->
                      IF d = 30
                      THEN Obj([GoodDay(d) EXCEPT !.date = Str(<<"3", "2", "-", "0", "3">>)])
                      ELSE Obj(GoodDay(d))])]}

\* The parsed files: a single calendar, or an object whose `calendars` holds
\* none, one or two calendars.
ImportInputs ==
    {[calendars |-> Undefined, name |-> c.name, year |-> c.year, days |-> c.days] :
        c \in CalendarInputs}
    \cup {[calendars |-> Arr(cals), name |-> Undefined, year |-> Undefined,
           days |-> Undefined] :
            cals \in {<<>>} \cup {<<c>> : c \in SampleCalendars}
                     \cup {<<c1, c2>> : c1 \in SampleCalendars, c2 \in SampleCalendars}}

ImportInit ==
    /\ clock = At(4, 0, 0)
    /\ permission = "granted"
    /\ calendars = {[id |-> 1, days |-> UserDays]}
    /\ activeCalendarId = <<1>>
    /\ nextId = 2
    /\ alarmSettings = <<>>
    /\ nextAlarmData = <<>>
    /\ running = FALSE
    /\ uiReady = FALSE
    /\ firstCheck = <<>>
    /\ intervalDue = <<>>
    /\ alarmTimers = <<>>
    /\ calls = <<>>
    /\ saves = 0
    /\ trace = <<>>
    /\ life = ""
    /\ worker = "v2"
    /\ cache = {}
    /\ response = <<>>
    /\ posted = <<>>
    /\ handled = 0
    /\ workerTrace = <<>>
    /\ importData \in {<<data>> : data \in ImportInputs}
    /\ validation = <<>>
    /\ pendingImportData = <<>>

\* Mutant of handleFileSelect: the data becomes pendingImportData whatever
\* validateImportData says of it.
handleFileSelect_KeepsInvalid(file) ==
    IF file = <<>>
    THEN [validation |-> <<>>, pending |-> <<>>, trace |-> <<>>]
    ELSE [validation |-> <<validateImportData(file[1])>>, pending |-> file, trace |-> <<>>]

\* handleFileSelect once the file has been read; `file` is the slot of what
\* JSON.parse makes of its text, empty when JSON.parse throws.  The data is
\* validated and becomes pendingImportData when it is valid; otherwise a
\* toast tells the error and pendingImportData is null.
handleFileSelect(file) ==
    LET failed == Ev("showToast", "error", <<<<"Failed to read file: ", 0>>>>)
    IN IF file = <<>>
       THEN [validation |-> <<>>, pending |-> <<>>, trace |-> <<failed>>]
       ELSE CHOOSE outcome \in
               {IF result.threw
                THEN [validation |-> <<result>>, pending |-> <<>>, trace |-> <<failed>>]
                ELSE IF ~result.valid
                THEN [validation |-> <<result>>, pending |-> <<>>,
                      trace |-> <<Ev("showToast", "error", <<result.error>>)>>]
                ELSE [validation |-> <<result>>, pending |-> file,
                      trace |-> <<Ev("showImportPreview", result.type, <<>>)>>]
                  : result \in {validateImportData(file[1])}} : TRUE

\* handleFileSelect after JSON.parse: the data is validated.
ValidateImport ==
    /\ importData # <<>> /\ validation = <<>>
    /\ \E outcome \in {handleFileSelect(importData)} :
          /\ validation' = outcome.validation
          /\ pendingImportData' = outcome.pending
          /\ trace' = outcome.trace
    /\ UNCHANGED importData
    /\ UNCHANGED workerVars
    /\ UNCHANGED <<clock, permission, calendars, activeCalendarId, nextId, alarmSettings,
                   nextAlarmData, running, uiReady, firstCheck, intervalDue,
                   alarmTimers, calls, saves, life>>

ImportNext == ValidateImport

ImportSpec == ImportInit /\ [][ImportNext]_vars

(***************************************************************************)
(* The recovery on its own: checkMissedAlarms run again and again on a     *)
(* record that a plan has stored, while the clock advances and storage     *)
(* works.                                                                  *)
(***************************************************************************)
\* The record a scheduleAlarms call of instant t stores for the user's
\* calendar with the default offsets.
StoredPlan(t) ==
    PlanRecord(PlanAlarms(t, UserDays[toDateString(t) + 1], DefaultSettings),
               <<[id |-> 1, days |-> UserDays]>>, t)

RecoveryInit ==
    /\ clock \in Instants
    /\ permission \in {"default", "granted", "denied"}
    /\ calendars = {[id |-> 1, days |-> UserDays]}
    /\ activeCalendarId = <<1>>
    /\ nextId = 2
    /\ alarmSettings = <<>>
    /\ \/ nextAlarmData = <<>>
       \/ \E t \in Instants : t <= clock /\ nextAlarmData = <<StoredPlan(t)>>
    /\ running = TRUE
    /\ uiReady = TRUE
    /\ firstCheck = <<>>
    /\ intervalDue = <<>>
    /\ alarmTimers = <<>>
    /\ calls = <<>>
    /\ saves = 0
    /\ trace = <<>>
    /\ life = ""
    /\ worker = "v2"
    /\ cache = {}
    /\ response = <<>>
    /\ posted = <<>>
    /\ handled = 0
    /\ workerTrace = <<>>
    /\ importData = <<>>
    /\ validation = <<>>
    /\ pendingImportData = <<>>

\* One call of checkMissedAlarms.
RecoveryRun ==
    /\ Commit(checkMissedAlarms(Main))
    /\ UNCHANGED <<workerVars, importVars>>
    /\ UNCHANGED <<clock, permission, calendars, activeCalendarId, nextId, running,
                   uiReady, firstCheck, intervalDue, saves>>

\* The clock advances between two calls.
RecoveryTick ==
    /\ \E t \in Instants : t > clock /\ clock' = t
    /\ trace' = <<>>
    /\ UNCHANGED <<workerVars, importVars>>
    /\ UNCHANGED <<permission, calendars, activeCalendarId, nextId, alarmSettings,
                   nextAlarmData, running, uiReady, firstCheck, intervalDue,
                   alarmTimers, calls, saves, life>>

RecoveryNext == RecoveryRun \/ RecoveryTick

RecoverySpec == RecoveryInit /\ [][RecoveryNext]_vars

(***************************************************************************)
(* Messages from the page to the service worker.  The data of a message    *)
(* is a slot: empty for null data.                                         *)
(***************************************************************************)
Message(type, title, body, tag) == [type |-> type, title |-> title, body |-> body, tag |-> tag]

\* The message showAlarmNotification posts for an alarm.
AlarmMessage(alarm) == Message("SHOW_NOTIFICATION", alarm.title, alarm.message, alarm.type)

\* A message that carries a type only.
Bare(type) == Message(type, "", <<>>, "")

\* The data of the messages a worker receives: the alarms of a day, the two
\* other types the v2 listener knows, a type no listener knows, and null.
MessageData ==
    {<<AlarmMessage(alarm)>> :
        alarm \in {a \in {PlanAlarms(At(4, 0, 0), UserDays[1], DefaultSettings)[i] : i \in 1 .. 4} :
                      a.type \in {"sahar-pre", "iftar"}}}
    \cup {<<Bare("SKIP_WAITING")>>, <<Bare("GET_VERSION")>>, <<Bare("CHECK_NOW")>>, <<>>}

\* self.registration.showNotification(title, options): the notification is
\* shown with permission 'granted'; otherwise the returned promise rejects,
\* and nothing handles the rejection.
registrationShowNotification(wtrace, title, body, tag) ==
    LET called == Append(wtrace, Ev("registration.showNotification", tag, <<<<title, 0>>>> \o body))
    IN IF permission = "granted"
       THEN Append(called, Ev("notification", tag, <<<<title, 0>>>> \o body))
       ELSE Append(called, Ev("TypeError", tag, <<>>))

\* Mutant of messageListener: a notification is asked for whatever the type
\* of the message is.
messageListener_AnyType(text, wtrace, data) ==
    IF data = <<>> THEN wtrace
    ELSE registrationShowNotification(wtrace, data[1].title, data[1].body, data[1].tag)

\* The message listener of the worker text `text`.
messageListener(text, wtrace, data) ==
    LET type == IF data = <<>> THEN "" ELSE data[1].type
        shown == IF type = "SHOW_NOTIFICATION"
                 THEN registrationShowNotification(wtrace, data[1].title, data[1].body,
                                                   data[1].tag)
                 ELSE wtrace
        skipped == IF text = "v2" /\ type = "SKIP_WAITING"
                   THEN Append(shown, Ev("skipWaiting", "", <<>>))
                   ELSE shown
    IN IF text = "v2" /\ type = "GET_VERSION"
       THEN Append(skipped, Ev("ports[0].postMessage", "version", <<<<"ramadan-ready-v2", 0>>>>))
       ELSE skipped

MessageInit ==
    /\ clock = At(4, 0, 0)
    /\ permission \in {"default", "granted", "denied"}
    /\ calendars = {[id |-> 1, days |-> UserDays]}
    /\ activeCalendarId = <<1>>
    /\ nextId = 2
    /\ alarmSettings = <<>>
    /\ nextAlarmData = <<>>
    /\ running = TRUE
    /\ uiReady = TRUE
    /\ firstCheck = <<>>
    /\ intervalDue = <<>>
    /\ alarmTimers = <<>>
    /\ calls = <<>>
    /\ saves = 0
    /\ trace = <<>>
    /\ life = ""
    /\ worker \in {"v1", "v2"}
    /\ cache = {}
    /\ response = <<>>
    /\ posted = <<>>
    /\ handled = 0
    /\ workerTrace = <<>>
    /\ importData = <<>>
    /\ validation = <<>>
    /\ pendingImportData = <<>>

\* controller.postMessage(data): the message is queued for the worker and
\* the call returns.
PostMessage ==
    /\ Len(posted) < MaxMessages
    /\ \E data \in MessageData : posted' = Append(posted, data)
    /\ UNCHANGED <<worker, cache, response, handled, workerTrace>>
    /\ UNCHANGED <<pageVars, importVars>>

\* The worker's message event for the oldest message not yet handled.
MessageEvent ==
    /\ handled < Len(posted)
    /\ handled' = handled + 1
    /\ workerTrace' = messageListener(worker, workerTrace, posted[handled + 1])
    /\ UNCHANGED <<worker, cache, response, posted>>
    /\ UNCHANGED <<pageVars, importVars>>

MessageNext == PostMessage \/ MessageEvent

MessageSpec == MessageInit /\ [][MessageNext]_vars

(***************************************************************************)
(* The import flow (file-handler.js) on the calendar store (db.js).  A     *)
(* stored calendar is [id, name, year, days], its name and the texts of    *)
(* its days as characters.  `calls` holds the IndexedDB requests that are  *)
(* pending, in the order of their creation, each with what its caller does *)
(* on success; the store serves them in that order.                        *)
(***************************************************************************)
\* The decimal digits of a counter.
RECURSIVE DecimalOf(_)
DecimalOf(n) ==
    IF n < 10 THEN <<Numerals[n + 1]>>
    ELSE DecimalOf(n \div 10) \o <<Numerals[(n % 10) + 1]>>

\* `${calendarData.name} (Imported ${counter})`
ImportedName(base, counter) ==
    base \o <<" ", "(", "I", "m", "p", "o", "r", "t", "e", "d", " ">>
         \o DecimalOf(counter) \o <<")">>

\* Mutant of UniqueName: the name is kept whatever names exist.
RECURSIVE UniqueName_KeepsName(_, _, _, _)
UniqueName_KeepsName(base, existingNames, name, counter) == name

\* The while loop of importSingleCalendar: the name, then the base name with
\* counter 1, 2, ... until the name is none of the existing ones.
RECURSIVE UniqueName(_, _, _, _)
UniqueName(base, existingNames, name, counter) ==
    IF name \notin existingNames THEN name
    ELSE UniqueName(base, existingNames, ImportedName(base, counter), counter + 1)

\* The newCalendar of importSingleCalendar for validated data.
NewCalendar(calendarData, name) ==
    [name |-> name,
     year |-> calendarData.year[2],
     days |-> [i \in 1 .. Len(calendarData.days[2]) |->
                  [date |-> calendarData.days[2][i][2].date[2],
                   saharTime |-> calendarData.days[2][i][2].saharTime[2],
                   iftarTime |-> calendarData.days[2][i][2].iftarTime[2]]]]

\* What JSON.stringify and JSON.parse make of a calendar's name, year and
\* days.
CalendarJson(calendar) ==
    [name |-> Str(calendar.name),
     year |-> Num(calendar.year),
     days |-> Arr([i \in 1 .. Len(calendar.days) |->
                     Obj([date |-> Str(calendar.days[i].date),
                          saharTime |-> Str(calendar.days[i].saharTime),
                          iftarTime |-> Str(calendar.days[i].iftarTime)])])]

\* The file of exportCalendar, parsed.
exportCalendar(calendar) ==
    [calendars |-> Undefined,
     name |-> CalendarJson(calendar).name,
     year |-> CalendarJson(calendar).year,
     days |-> CalendarJson(calendar).days]

\* The stored calendars in the order of their keys.
RECURSIVE ByKey(_)
ByKey(cals) ==
    IF cals = {} THEN <<>>
    ELSE LET first == CHOOSE c \in cals : \A other \in cals : c.id <= other.id
         IN <<first>> \o ByKey(cals \ {first})

\* The file of exportAllCalendars, parsed.
exportAllCalendars(cals) ==
    [calendars |-> Arr([i \in 1 .. Len(ByKey(cals)) |-> CalendarJson(ByKey(cals)[i])]),
     name |-> Undefined, year |-> Undefined, days |-> Undefined]

\* A pending request: its kind and caller, the calendar id or the calendar it
\* carries, and for confirmImport the calendars still to import and
\* importCount.
Request(pc, id, calendar, todo, count) ==
    [pc |-> pc, id |-> id, calendar |-> calendar, todo |-> todo, count |-> count]

\* The calendars of a validated file, in the order confirmImport takes them.
ToImport(data) ==
    IF Truthy(data.calendars) /\ data.calendars[1] = "array" THEN data.calendars[2]
    ELSE <<data>>

\* A calendar the editor saves: `n` rows filled, dates DD-03, times from
\* time inputs.
EditorCalendar(id, name, n) ==
    [id |-> id, name |-> name, year |-> 2026,
     days |-> [d \in 1 .. n |-> [date |-> DateText(d),
                                 saharTime |-> <<"0", "5", ":", "3", "0">>,
                                 iftarTime |-> <<"1", "8", ":", "4", "5">>]]]

\* The stores the flow starts from: empty, one calendar of 29 days named R,
\* or of 10 days named S.
FlowStores ==
    {{}, {EditorCalendar(1, <<"R">>, 29)}, {EditorCalendar(1, <<"S">>, 10)}}

\* The files the user can choose: a text that is no JSON, the calendar R as
\* another device exported it, the same with 28 days, a file of two
\* calendars named R, and the files the export functions make of the present
\* store.
GivenFiles ==
    {<<>>,
     <<exportCalendar(EditorCalendar(0, <<"R">>, 29))>>,
     <<exportCalendar(EditorCalendar(0, <<"R">>, 28))>>,
     <<[calendars |-> Arr(<<CalendarJson(EditorCalendar(0, <<"R">>, 29)),
                            CalendarJson(EditorCalendar(0, <<"R">>, 29))>>),
        name |-> Undefined, year |-> Undefined, days |-> Undefined]>>}
ExportedFiles(cals) ==
    {<<exportCalendar(c)>> : c \in cals}
    \cup (IF cals = {} THEN {} ELSE {<<exportAllCalendars(cals)>>})

FlowInit ==
    /\ clock = At(4, 0, 0)
    /\ permission = "granted"
    /\ calendars \in FlowStores
    /\ activeCalendarId = IF calendars = {} THEN <<>> ELSE <<1>>
    /\ nextId = IF calendars = {} THEN 1 ELSE 2
    /\ alarmSettings = <<>>
    /\ nextAlarmData = <<>>
    /\ running = TRUE
    /\ uiReady = TRUE
    /\ firstCheck = <<>>
    /\ intervalDue = <<>>
    /\ alarmTimers = <<>>
    /\ calls = <<>>
    /\ saves = 0
    /\ trace = <<>>
    /\ life = ""
    /\ worker = "v2"
    /\ cache = {}
    /\ response = <<>>
    /\ posted = <<>>
    /\ handled = 0
    /\ workerTrace = <<>>
    /\ importData = <<>>
    /\ validation = <<>>
    /\ pendingImportData = <<>>

\* handleFileSelect for a chosen file, once the file has been read.
FileSelected ==
    /\ \E file \in GivenFiles \cup ExportedFiles(calendars) :
          \E outcome \in {handleFileSelect(file)} :
             /\ importData' = file
             /\ validation' = outcome.validation
             /\ pendingImportData' = outcome.pending
             /\ trace' = outcome.trace
    /\ UNCHANGED workerVars
    /\ UNCHANGED <<clock, permission, calendars, activeCalendarId, nextId, alarmSettings,
                   nextAlarmData, running, uiReady, firstCheck, intervalDue,
                   alarmTimers, calls, saves, life>>

\* cancelImport.
CancelImport ==
    /\ pendingImportData' = <<>>
    /\ trace' = <<Ev("hideImportPreview", "", <<>>)>>
    /\ UNCHANGED <<workerVars, importData, validation>>
    /\ UNCHANGED <<clock, permission, calendars, activeCalendarId, nextId, alarmSettings,
                   nextAlarmData, running, uiReady, firstCheck, intervalDue,
                   alarmTimers, calls, saves, life>>

\* The calendars that the pending requests of the imports will still store.
ToStore ==
    LET RECURSIVE Sum(_)
        Sum(k) == IF k = 0 THEN 0
                  ELSE Sum(k - 1) + (IF calls[k].pc \in {"getAll.import", "add.import"}
                                     THEN Len(calls[k].todo) ELSE 0)
    IN Sum(Len(calls))

\* confirmImport up to its first await: without pending data a toast and
\* nothing else; with pending data the first importSingleCalendar asks for
\* the stored calendars.
ConfirmImport ==
    /\ IF pendingImportData = <<>>
       THEN /\ trace' = <<Ev("showToast", "error", <<<<"No data to import", 0>>>>)>>
            /\ UNCHANGED calls
       ELSE /\ Cardinality(calendars) + ToStore + Len(ToImport(pendingImportData[1]))
                  <= MaxStored
            /\ calls' = Append(calls, Request("getAll.import", 0, <<>>,
                                              ToImport(pendingImportData[1]), 0))
            /\ trace' = <<>>
    /\ UNCHANGED <<workerVars, importVars>>
    /\ UNCHANGED <<clock, permission, calendars, activeCalendarId, nextId, alarmSettings,
                   nextAlarmData, running, uiReady, firstCheck, intervalDue,
                   alarmTimers, saves, life>>

\* importSingleCalendar after getAllCalendars: the name is made unique among
\* the names read, and createCalendar asks the store to add the calendar.
ImportNames ==
    /\ calls # <<>> /\ Head(calls).pc = "getAll.import"
    /\ LET call == Head(calls)
           calendarData == call.todo[1]
           existingNames == {c.name : c \in calendars}
           name == UniqueName(calendarData.name[2], existingNames, calendarData.name[2], 1)
       IN calls' = Append(Tail(calls),
                          Request("add.import", 0, <<NewCalendar(calendarData, name)>>,
                                  call.todo, call.count))
    /\ trace' = <<>>
    /\ UNCHANGED <<workerVars, importVars>>
    /\ UNCHANGED <<clock, permission, calendars, activeCalendarId, nextId, alarmSettings,
                   nextAlarmData, running, uiReady, firstCheck, intervalDue,
                   alarmTimers, saves, life>>

\* createCalendar's add has succeeded: the calendar is stored under the next
\* key, the first-calendar check asks for the stored calendars, and
\* confirmImport goes on to its next calendar or to its end.
ImportCreate ==
    /\ calls # <<>> /\ Head(calls).pc = "add.import"
    /\ LET call == Head(calls)
           stored == [id |-> nextId, name |-> call.calendar[1].name,
                      year |-> call.calendar[1].year, days |-> call.calendar[1].days]
           check == Request("getAll.first", nextId, <<>>, <<>>, 0)
           rest == Tail(call.todo)
       IN /\ calendars' = calendars \cup {stored}
          /\ nextId' = nextId + 1
          /\ IF rest # <<>>
             THEN /\ calls' = Tail(calls) \o <<check, Request("getAll.import", 0, <<>>, rest,
                                                              call.count + 1)>>
                  /\ trace' = <<>>
                  /\ UNCHANGED pendingImportData
             ELSE /\ calls' = Append(Tail(calls), check)
                  /\ trace' = <<Ev("showToast", "success",
                                   <<<<"Imported ${importCount} calendar(s)", call.count + 1>>>>)>>
                  /\ pendingImportData' = <<>>
    /\ UNCHANGED <<workerVars, importData, validation>>
    /\ UNCHANGED <<clock, permission, activeCalendarId, alarmSettings,
                   nextAlarmData, running, uiReady, firstCheck, intervalDue,
                   alarmTimers, saves, life>>

\* createCalendar's deferred check after getAllCalendars: the new calendar
\* becomes the active one when the store holds one calendar.
FirstCheck ==
    /\ calls # <<>> /\ Head(calls).pc = "getAll.first"
    /\ calls' = Tail(calls)
    /\ activeCalendarId' = IF Cardinality(calendars) = 1 THEN <<Head(calls).id>>
                           ELSE activeCalendarId
    /\ trace' = <<>>
    /\ UNCHANGED <<workerVars, importVars>>
    /\ UNCHANGED <<clock, permission, calendars, nextId, alarmSettings,
                   nextAlarmData, running, uiReady, firstCheck, intervalDue,
                   alarmTimers, saves, life>>

FlowNext ==
    \/ FileSelected
    \/ CancelImport
    \/ ConfirmImport
    \/ ImportNames
    \/ ImportCreate
    \/ FirstCheck

FlowSpec == FlowInit /\ [][FlowNext]_vars

(***************************************************************************)
(* The calendar store on its own (db.js): createCalendar,                  *)
(* duplicateCalendar, selectCalendar, deleteCalendar and clearAll, called  *)
(* while earlier requests are pending.  `calls` holds the pending          *)
(* IndexedDB requests in the order of their creation.                      *)
(***************************************************************************)
StoreInit ==
    /\ clock = At(4, 0, 0)
    /\ permission = "granted"
    /\ calendars \in {{}, {[id |-> 1, days |-> UserDays]}}
    /\ activeCalendarId = IF calendars = {} THEN <<>> ELSE <<1>>
    /\ nextId = IF calendars = {} THEN 1 ELSE 2
    /\ alarmSettings = <<>>
    /\ nextAlarmData = <<>>
    /\ running = TRUE
    /\ uiReady = TRUE
    /\ firstCheck = <<>>
    /\ intervalDue = <<>>
    /\ alarmTimers = <<>>
    /\ calls = <<>>
    /\ saves = 0
    /\ trace = <<>>
    /\ life = ""
    /\ worker = "v2"
    /\ cache = {}
    /\ response = <<>>
    /\ posted = <<>>
    /\ handled = 0
    /\ workerTrace = <<>>
    /\ importData = <<>>
    /\ validation = <<>>
    /\ pendingImportData = <<>>

\* The keys that the pending requests will still draw from the key
\* generator.
KeysAhead ==
    Cardinality({k \in 1 .. Len(calls) : calls[k].pc \in {"add", "get.duplicate"}})

\* The ids of the calendars the list on the screen shows.
Listed == {c.id : c \in calendars}

\* handleCalendarSave for a new calendar: createCalendar asks the store to
\* add it.
CreateCalendar ==
    /\ Len(calls) < MaxPending
    /\ nextId + KeysAhead <= MaxKeys
    /\ calls' = Append(calls, Request("add", 0, <<[days |-> UserDays]>>, <<>>, 0))
    /\ trace' = <<>>
    /\ UNCHANGED <<workerVars, importVars>>
    /\ UNCHANGED <<clock, permission, calendars, activeCalendarId, nextId, alarmSettings,
                   nextAlarmData, running, uiReady, firstCheck, intervalDue,
                   alarmTimers, saves, life>>

\* duplicateCalendar(id): getCalendar asks the store for the calendar.
DuplicateCalendar ==
    /\ Len(calls) < MaxPending
    /\ nextId + KeysAhead <= MaxKeys
    /\ \E id \in Listed : calls' = Append(calls, Request("get.duplicate", id, <<>>, <<>>, 0))
    /\ trace' = <<>>
    /\ UNCHANGED <<workerVars, importVars>>
    /\ UNCHANGED <<clock, permission, calendars, activeCalendarId, nextId, alarmSettings,
                   nextAlarmData, running, uiReady, firstCheck, intervalDue,
                   alarmTimers, saves, life>>

\* selectCalendar(id): setActiveCalendar(id), at once.
SelectCalendar ==
    /\ \E id \in Listed : activeCalendarId' = <<id>>
    /\ trace' = <<Ev("showToast", "success", <<<<"Calendar selected", 0>>>>)>>
    /\ UNCHANGED <<workerVars, importVars>>
    /\ UNCHANGED <<clock, permission, calendars, nextId, alarmSettings,
                   nextAlarmData, running, uiReady, firstCheck, intervalDue,
                   alarmTimers, calls, saves, life>>

\* deleteCalendar(id), confirmed: the store is asked to delete the calendar.
DeleteCalendar ==
    /\ Len(calls) < MaxPending
    /\ \E id \in Listed : calls' = Append(calls, Request("delete", id, <<>>, <<>>, 0))
    /\ trace' = <<>>
    /\ UNCHANGED <<workerVars, importVars>>
    /\ UNCHANGED <<clock, permission, calendars, activeCalendarId, nextId, alarmSettings,
                   nextAlarmData, running, uiReady, firstCheck, intervalDue,
                   alarmTimers, saves, life>>

\* clearAllData, confirmed twice: clearAll asks the store to clear.
ClearAll ==
    /\ Len(calls) < MaxPending
    /\ calls' = Append(calls, Request("clear", 0, <<>>, <<>>, 0))
    /\ trace' = <<>>
    /\ UNCHANGED <<workerVars, importVars>>
    /\ UNCHANGED <<clock, permission, calendars, activeCalendarId, nextId, alarmSettings,
                   nextAlarmData, running, uiReady, firstCheck, intervalDue,
                   alarmTimers, saves, life>>

\* createCalendar's add has succeeded: the calendar is stored under the next
\* key and the first-calendar check asks for the stored calendars.
AddDone ==
    /\ calls # <<>> /\ Head(calls).pc = "add"
    /\ calendars' = calendars \cup {[id |-> nextId, days |-> Head(calls).calendar[1].days]}
    /\ nextId' = nextId + 1
    /\ calls' = Append(Tail(calls), Request("getAll.first", nextId, <<>>, <<>>, 0))
    /\ trace' = <<>>
    /\ UNCHANGED <<workerVars, importVars>>
    /\ UNCHANGED <<clock, permission, activeCalendarId, alarmSettings,
                   nextAlarmData, running, uiReady, firstCheck, intervalDue,
                   alarmTimers, saves, life>>

\* duplicateCalendar after getCalendar: a copy is handed to createCalendar,
\* or the call throws when there is no such calendar.
GetDone ==
    /\ calls # <<>> /\ Head(calls).pc = "get.duplicate"
    /\ LET found == {c \in calendars : c.id = Head(calls).id}
       IN IF found = {}
          THEN /\ calls' = Tail(calls)
               /\ trace' = <<Ev("showToast", "error", <<<<"Failed to duplicate calendar", 0>>>>)>>
          ELSE /\ calls' = Append(Tail(calls),
                                  Request("add", 0,
                                          <<[days |-> (CHOOSE c \in found : TRUE).days]>>,
                                          <<>>, 0))
               /\ trace' = <<>>
    /\ UNCHANGED <<workerVars, importVars>>
    /\ UNCHANGED <<clock, permission, calendars, activeCalendarId, nextId, alarmSettings,
                   nextAlarmData, running, uiReady, firstCheck, intervalDue,
                   alarmTimers, saves, life>>

\* deleteCalendar's delete has succeeded: the calendar is gone, and with it
\* the active id when it was this calendar's.
DeleteDone ==
    /\ calls # <<>> /\ Head(calls).pc = "delete"
    /\ calendars' = {c \in calendars : c.id # Head(calls).id}
    /\ activeCalendarId' = IF activeCalendarId = <<Head(calls).id>> THEN <<>>
                           ELSE activeCalendarId
    /\ calls' = Tail(calls)
    /\ trace' = <<Ev("showToast", "success", <<<<"Calendar deleted", 0>>>>)>>
    /\ UNCHANGED <<workerVars, importVars>>
    /\ UNCHANGED <<clock, permission, nextId, alarmSettings,
                   nextAlarmData, running, uiReady, firstCheck, intervalDue,
                   alarmTimers, saves, life>>

\* clearAll's clear has succeeded: no calendar and no active id; clearAllData
\* then removes the settings.
ClearDone ==
    /\ calls # <<>> /\ Head(calls).pc = "clear"
    /\ calendars' = {}
    /\ activeCalendarId' = <<>>
    /\ alarmSettings' = <<>>
    /\ calls' = Tail(calls)
    /\ trace' = <<Ev("showToast", "success", <<<<"All data cleared", 0>>>>)>>
    /\ UNCHANGED <<workerVars, importVars>>
    /\ UNCHANGED <<clock, permission, nextId, nextAlarmData, running, uiReady,
                   firstCheck, intervalDue, alarmTimers, saves, life>>

StoreNext ==
    \/ CreateCalendar
    \/ DuplicateCalendar
    \/ SelectCalendar
    \/ DeleteCalendar
    \/ ClearAll
    \/ AddDone
    \/ GetDone
    \/ DeleteDone
    \/ ClearDone
    \/ FirstCheck

StoreSpec == StoreInit /\ [][StoreNext]_vars

(***************************************************************************)
(* Observations used by the properties.                                    *)
(***************************************************************************)
\* The handler that ran last did `op`.
Traced(tr, op) == \E i \in 1 .. Len(tr) : tr[i].op = op

\* The handler that ran last raised the missed-alarm toast or asked for the
\* missed-alarm notification.
MissedReported(tr) ==
    \E i \in 1 .. Len(tr) :
        \/ tr[i].op = "showToast" /\ tr[i].tag = "warning"
        \/ tr[i].op = "showNotification" /\ tr[i].tag = "missed-alarm"

\* A step in which checkMissedAlarms runs.
CheckRuns == PageLoad \/ InitApp

\* The stored record holds an entry of `type` with the given triggered flag.
HoldsEntry(slot, type, flag) ==
    /\ slot # <<>>
    /\ \E i \in 1 .. Len(slot[1].alarms) :
          slot[1].alarms[i].type = type /\ slot[1].alarms[i].triggered = flag

AlarmTypes == {"sahar-pre", "sahar", "iftar-pre", "iftar"}

(***************************************************************************)
(* Properties.                                                             *)
(***************************************************************************)
\* C1: when no scheduleAlarms call is in progress and the armed timers were
\* all planned at the present clock and are the plan of the stored settings
\* and today's event times, once or repeated, then they are that plan once:
\* one timer per planned alarm, no duplicates.
C1_IdempotentReplan ==
    LET today == getTodayData(calendars, activeCalendarId, clock)
        settings == getAlarmSettings(Main)
        plan == PlanAlarms(clock, today[1], settings)
    IN (/\ running /\ calls = <<>> /\ alarmTimers # <<>>
        /\ today # <<>> /\ settings.enabled
        /\ \A i \in 1 .. Len(alarmTimers) :
              /\ alarmTimers[i].now = clock
              /\ Len(plan) > 0
              /\ alarmTimers[i].alarm = plan[((i - 1) % Len(plan)) + 1])
       => Len(alarmTimers) = Len(plan)

\* C2: a checkMissedAlarms run on a stored record dated another day than
\* today raises no missed-alarm toast and no missed-alarm notification.
C2_StaleDateDiscard ==
    [][(/\ CheckRuns
        /\ nextAlarmData # <<>>
        /\ nextAlarmData[1].date # toDateString(clock))
       => ~MissedReported(trace')]_vars

\* C3: within one calendar day, once the record holds a triggered entry of an
\* alarm type, no step leaves the record holding an untriggered entry of that
\* type.
C3_TriggeredMonotonic ==
    [][\A type \in AlarmTypes :
          (/\ HoldsEntry(nextAlarmData, type, TRUE)
           /\ nextAlarmData[1].date = toDateString(clock')
           /\ nextAlarmData' # <<>>
           /\ nextAlarmData'[1].date = nextAlarmData[1].date)
          => ~HoldsEntry(nextAlarmData', type, FALSE)]_vars

\* The ages, in minutes, that the missed-alarm toast of the last handler
\* lists, in its order; none when it raised no such toast.
ReportedAges(tr) ==
    LET hits == {i \in 1 .. Len(tr) : tr[i].op = "showToast" /\ tr[i].tag = "warning"}
    IN IF hits = {} THEN <<>>
       ELSE LET body == tr[CHOOSE i \in hits : \A j \in hits : i <= j].body
            IN [k \in 1 .. Len(body) |-> body[k][2]]

\* An untriggered entry whose age at `now` is more than nothing and less than
\* an hour.
Recoverable(entry, now) ==
    /\ ~entry.triggered
    /\ now - DateOf(entry.time) > 0
    /\ now - DateOf(entry.time) < 3600000

\* C4: a checkMissedAlarms run on a record dated today reports exactly the
\* untriggered entries aged more than 0 and less than one hour, each with its
\* age in whole minutes, and marks each of them triggered.
C4_RecoveryWindow ==
    [][(/\ CheckRuns
        /\ nextAlarmData # <<>>
        /\ nextAlarmData[1].date = toDateString(clock))
       => LET alarms == nextAlarmData[1].alarms
              expected == SelectSeq(alarms, LAMBDA a : Recoverable(a, clock))
          IN /\ ReportedAges(trace') =
                   [k \in 1 .. Len(expected) |->
                       (clock - DateOf(expected[k].time)) \div 60000]
             /\ nextAlarmData' # <<>>
             /\ \A i \in 1 .. Len(alarms) :
                   Recoverable(alarms[i], clock) => nextAlarmData'[1].alarms[i].triggered]_vars

\* C4 witness: a recovery run has just reported an entry 59 min 59 s old.
C4_Witness ==
    /\ Traced(trace, "checkMissedAlarms")
    /\ clock = At(6, 14, 59)
    /\ \E k \in 1 .. Len(ReportedAges(trace)) : ReportedAges(trace)[k] = 59
    /\ HoldsEntry(nextAlarmData, "sahar-pre", TRUE)

\* C5: after a checkMissedAlarms run on a record dated today, every entry
\* whose instant is in the past is triggered in the stored record.
C5_PastEntriesTriggered ==
    [][(/\ CheckRuns
        /\ nextAlarmData # <<>>
        /\ nextAlarmData[1].date = toDateString(clock))
       => /\ nextAlarmData' # <<>>
          /\ \A i \in 1 .. Len(nextAlarmData[1].alarms) :
                DateOf(nextAlarmData[1].alarms[i].time) < clock
                => nextAlarmData'[1].alarms[i].triggered]_vars

\* C6: every armed timer's instant is strictly later than the `now` its call
\* read, and the record a call stores holds only entries later than that now.
C6_ArmedAfterNow ==
    /\ [](\A i \in 1 .. Len(alarmTimers) : alarmTimers[i].alarm.time > alarmTimers[i].now)
    /\ [][(ResumeArm /\ Traced(trace', "storeAlarmData"))
          => \A i \in 1 .. Len(nextAlarmData'[1].alarms) :
                DateOf(nextAlarmData'[1].alarms[i].time) > Head(calls).now]_vars

\* C6 witness: a call that read now = 05:15 with a 15-minute sahar offset has
\* armed the three later alarms and not the one at 05:15.
C6_Witness ==
    /\ Traced(trace, "setTimeout")
    /\ Len(alarmTimers) = 3
    /\ \A i \in 1 .. 3 : alarmTimers[i].now = At(5, 15, 0)
    /\ getAlarmSettings(Main).saharMinutes = 15
    /\ nextAlarmData # <<>> /\ Len(nextAlarmData[1].alarms) = 3

\* C7: a scheduleAlarms call that finds alarms disabled ends with no armed
\* timer and no stored record.
C7_DisabledClears ==
    [][(/\ Traced(trace', "scheduleAlarms")
        /\ ~getAlarmSettings([alarmSettings |-> alarmSettings']).enabled)
       => (alarmTimers' = <<>> /\ nextAlarmData' = <<>>)]_vars

\* C7 witness: scheduleAlarms has just run with alarms disabled.
C7_Witness ==
    /\ Traced(trace, "scheduleAlarms")
    /\ Traced(trace, "clearStoredAlarmData")
    /\ ~getAlarmSettings(Main).enabled
    /\ alarmTimers = <<>> /\ nextAlarmData = <<>>

\* C8: after saveSettings with enabled = false, and after clearAllData, the
\* stored record is absent.
C8_DisableRemovesRecord ==
    [][(\/ SaveSettings /\ ~getAlarmSettings([alarmSettings |-> alarmSettings']).enabled
        \/ ClearAllData)
       => nextAlarmData' = <<>>]_vars

\* The handler that ran last surfaced something to the user.
Surfaced(tr) ==
    \E i \in 1 .. Len(tr) : tr[i].op \in {"showToast", "showNotification", "postMessage"}

\* C9: a scheduleAlarms call that finds no data for today returns without
\* arming a timer, without touching the stored record or the settings, and
\* without surfacing anything.
C9_NoDataNoChange ==
    [][(ResumeToday /\ getTodayData(calendars, activeCalendarId, clock) = <<>>)
       => /\ alarmTimers' = alarmTimers
          /\ nextAlarmData' = nextAlarmData
          /\ alarmSettings' = alarmSettings
          /\ ~Surfaced(trace')]_vars

\* C9 witness: a call has just returned for lack of today's data, with alarms
\* enabled and a record in storage.
C9_Witness ==
    /\ Traced(trace, "log")
    /\ getAlarmSettings(Main).enabled
    /\ nextAlarmData # <<>>

\* C10: in every process, checkMissedAlarms is entered before scheduleAlarms:
\* wherever a plan has been started, the recovery ran first.
C10_RecoveryBeforeFirstPlan ==
    /\ life # "scheduleAlarms"
    /\ (Traced(trace, "scheduleAlarms") \/ calls # <<>> \/ alarmTimers # <<>>)
       => life = "checkMissedAlarms"

\* C10 witness: at page load the recovery has processed a stored record and
\* the first plan has then been started.
C10_Witness ==
    /\ Traced(trace, "setInterval")
    /\ \E i, j \in 1 .. Len(trace) :
          /\ i < j
          /\ trace[i].op = "storeAlarmData"
          /\ trace[j].op = "scheduleAlarms"

\* C11: in a process that has already entered checkMissedAlarms or
\* scheduleAlarms, no handler runs checkMissedAlarms again: the recovery runs
\* once per process.
C11_RecoveryOnce ==
    [][(life # "" /\ running') => ~Traced(trace', "checkMissedAlarms")]_vars

\* The positions in a trace of the events of the given functions.
Positions(tr, ops) == {i \in 1 .. Len(tr) : tr[i].op \in ops}

\* The functions through which triggerAlarm dispatches the notification.
DispatchOps == {"postMessage", "showNotification", "Notification", "showToast"}

\* C12: when a timer fires and its entry is marked in the stored record, the
\* record is written before the notification is dispatched, and the
\* notification is dispatched before the status refresh is requested.
C12_MarkDispatchRefresh ==
    [][TimerFires =>
         /\ \A i \in Positions(trace', {"storeAlarmData"}), j \in Positions(trace', DispatchOps) :
               i < j
         /\ \A j \in Positions(trace', DispatchOps), k \in Positions(trace', {"updateAlarmStatus"}) :
               j < k]_vars

\* The handler that ran last handed the alarm to one of the notification
\* channels and raised the in-app toast with the alarm's message.
Notified(tr, alarm) ==
    /\ \E i \in 1 .. Len(tr) :
          tr[i].op \in {"postMessage", "showNotification"} /\ tr[i].tag = alarm.type
    /\ \E i \in 1 .. Len(tr) :
          tr[i].op = "showToast" /\ tr[i].tag = "info" /\ tr[i].body = alarm.message

\* C13: a timer that fires while localStorage fails still hands its alarm to
\* a notification channel and raises the toast, runs to its end (the status
\* refresh), and leaves the stored record as it was.
C13_NotifiesDespiteStorage ==
    [][TimerFails =>
         /\ \E i \in 1 .. Len(alarmTimers) :
               NextDue(i) /\ Notified(trace', alarmTimers[i].alarm)
         /\ trace'[Len(trace')].op = "updateAlarmStatus"
         /\ ~Traced(trace', "throw")
         /\ nextAlarmData' = nextAlarmData]_vars

\* C13 witness: a timer has fired while setItem failed: the toast is up and
\* the stored entry of the fired type is still untriggered.
C13_Witness ==
    /\ Traced(trace, "console.error")
    /\ \E i \in 1 .. Len(trace) :
          /\ trace[i].op = "showToast" /\ trace[i].tag = "info"
          /\ \E j \in 1 .. Len(trace) :
                /\ trace[j].op \in {"postMessage", "showNotification"}
                /\ HoldsEntry(nextAlarmData, trace[j].tag, FALSE)

\* C14: when no scheduleAlarms call is in progress, the armed timers are those
\* of one call, the latest: no two armed timers are of the same alarm type.
C14_OnlyLatestCallArmed ==
    (running /\ calls = <<>>)
    => \A i, j \in 1 .. Len(alarmTimers) :
          i # j => alarmTimers[i].alarm.type # alarmTimers[j].alarm.type

\* The stored record marks the alarm instance (its type at its instant) as
\* triggered: it has been fired live or reported by the recovery.
AlreadyNotified(slot, alarm) ==
    /\ slot # <<>>
    /\ \E k \in 1 .. Len(slot[1].alarms) :
          /\ slot[1].alarms[k].type = alarm.type
          /\ DateOf(slot[1].alarms[k].time) = alarm.time
          /\ slot[1].alarms[k].triggered

\* C15: an alarm instance is notified at most once: no timer fires for an
\* alarm instance that the stored record already marks as triggered.
C15_NotifiedAtMostOnce ==
    [][TimerFires =>
         \A i \in 1 .. Len(alarmTimers) :
            NextDue(i) => ~AlreadyNotified(nextAlarmData, alarmTimers[i].alarm)]_vars

\* The instant of an HH:MM event time on the date of `now`.
EventInstant(now, hm) == (now \div DAY) * DAY + (hm[1] * 60 + hm[2]) * MINUTE

\* The four alarms of a day as <<type, instant>>, and those of them that are
\* strictly after `now`.
FourAlarms(now, today, settings) ==
    << <<"sahar-pre", EventInstant(now, today.saharTime) - settings.saharMinutes * MINUTE>>,
       <<"sahar", EventInstant(now, today.saharTime)>>,
       <<"iftar-pre", EventInstant(now, today.iftarTime) - settings.iftarMinutes * MINUTE>>,
       <<"iftar", EventInstant(now, today.iftarTime)>> >>

ExpectedPlan(now, today, settings) ==
    SelectSeq(FourAlarms(now, today, settings), LAMBDA a : a[2] > now)

\* The timers the step has added to alarmTimers, as <<type, instant>>.
NewlyArmed ==
    [k \in 1 .. Len(alarmTimers') - Len(alarmTimers) |->
        <<alarmTimers'[Len(alarmTimers) + k].alarm.type,
          alarmTimers'[Len(alarmTimers) + k].alarm.time>>]

\* C16: the alarms a scheduleAlarms call arms, and stores when there is one,
\* are exactly those of sahar-pre, sahar, iftar-pre and iftar, at the event
\* times of today's date less the offsets, that are strictly after the now
\* the call read.
C16_PlanIsFourAfterNow ==
    [][ResumeArm =>
         LET call == Head(calls)
             expected == ExpectedPlan(call.now, call.todayData[1], call.settings)
         IN /\ NewlyArmed = expected
            /\ Len(expected) > 0 =>
                  /\ nextAlarmData' # <<>>
                  /\ [k \in 1 .. Len(nextAlarmData'[1].alarms) |->
                         <<nextAlarmData'[1].alarms[k].type,
                           DateOf(nextAlarmData'[1].alarms[k].time)>>] = expected]_vars

\* C16 witness: with 05:30 / 18:45 and 15-minute offsets a call that read
\* now = 06:00 has armed the two iftar alarms only, at 18:30 and 18:45.
C16_Witness ==
    /\ Traced(trace, "setTimeout")
    /\ clock = At(6, 0, 0)
    /\ Len(alarmTimers) = 2
    /\ alarmTimers[1].now = At(6, 0, 0)
    /\ alarmTimers[1].alarm.type = "iftar-pre" /\ alarmTimers[1].alarm.time = At(18, 30, 0)
    /\ alarmTimers[2].alarm.type = "iftar" /\ alarmTimers[2].alarm.time = At(18, 45, 0)
    /\ getTodayData(calendars, activeCalendarId, clock)[1].saharTime = <<5, 30>>
    /\ nextAlarmData # <<>> /\ Len(nextAlarmData[1].alarms) = 2

\* A sequence of instants is in chronological order.
Chronological(times) ==
    \A i, j \in 1 .. Len(times) : i < j => times[i] <= times[j]

\* C17: the armed timers of a call, in the order of alarmTimers, and the
\* entries of the stored record, in the order of its alarms array, are in
\* chronological order.
C17_PlanChronological ==
    /\ Chronological([i \in 1 .. Len(alarmTimers) |-> alarmTimers[i].alarm.time])
    /\ nextAlarmData # <<>> =>
          Chronological([i \in 1 .. Len(nextAlarmData[1].alarms) |->
                            DateOf(nextAlarmData[1].alarms[i].time)])

\* The settings values a scheduleAlarms call may be working with: the stored
\* ones as getAlarmSettings reads them, and those the suspended calls read.
ReadSettings ==
    {getAlarmSettings(Main)} \cup {calls[k].settings : k \in 1 .. Len(calls)}

\* C18: for every settings value scheduleAlarms reads, the pre-alarm instant
\* of each of today's events is strictly earlier than the event's instant.
C18_PreBeforeExact ==
    LET today == getTodayData(calendars, activeCalendarId, clock)
    IN today # <<>> =>
         \A settings \in ReadSettings :
            /\ setHours(clock, today[1].saharTime) - settings.saharMinutes * 60000
                  < setHours(clock, today[1].saharTime)
            /\ setHours(clock, today[1].iftarTime) - settings.iftarMinutes * 60000
                  < setHours(clock, today[1].iftarTime)

\* C18 witness: settings saved from a sahar field holding -5 were read as one
\* minute, and the sahar reminder is armed one minute before sahar.
C18_Witness ==
    /\ getAlarmSettings(Main).saharMinutes = 1
    /\ \E i, j \in 1 .. Len(alarmTimers) :
          /\ alarmTimers[i].alarm.type = "sahar-pre"
          /\ alarmTimers[j].alarm.type = "sahar"
          /\ alarmTimers[i].alarm.time = alarmTimers[j].alarm.time - MINUTE

\* A step in which a timer fires.
AlarmFires == TimerFires \/ TimerFails

\* C19: every firing raises exactly one in-app toast, the one carrying the
\* fired alarm's message, whatever the controller and the permission are.
C19_OneToastPerAlarm ==
    [][AlarmFires =>
         /\ Cardinality(Positions(trace', {"showToast"})) = 1
         /\ \E i \in 1 .. Len(alarmTimers), k \in Positions(trace', {"showToast"}) :
               /\ NextDue(i)
               /\ trace'[k].tag = "info"
               /\ trace'[k].body = alarmTimers[i].alarm.message]_vars

\* C19 witness: an alarm has fired through the controller while the
\* permission is denied, and its toast is up.
C19_Witness ==
    /\ permission = "denied"
    /\ Traced(trace, "postMessage")
    /\ Traced(trace, "showToast")
    /\ Traced(trace, "updateAlarmStatus")

\* C20: every firing uses one OS-level channel: either it posts to the
\* controller and attempts no direct display, or it attempts direct display
\* once, which constructs a Notification exactly when the permission is
\* granted and otherwise does nothing, raising no error.
C20_OneChannel ==
    [][AlarmFires =>
         LET posts == Positions(trace', {"postMessage"})
             directs == Positions(trace', {"showNotification"})
             shown == Positions(trace', {"Notification"})
         IN /\ Cardinality(posts) + Cardinality(directs) = 1
            /\ posts # {} => shown = {}
            /\ directs # {} => (IF permission = "granted"
                                THEN Cardinality(shown) = 1 ELSE shown = {})
            /\ \A k \in 1 .. Len(trace') :
                  ~(trace'[k].op = "showToast" /\ trace'[k].tag = "error")
            /\ ~Traced(trace', "throw")]_vars

\* C20 witness: an alarm has fired without a controller while the permission
\* was never given: direct display was attempted and showed nothing.
C20_Witness ==
    /\ permission = "default"
    /\ Traced(trace, "showNotification")
    /\ ~Traced(trace, "Notification")
    /\ ~Traced(trace, "postMessage")
    /\ Traced(trace, "updateAlarmStatus")

\* How many times the handler that ran last did `op`.
Count(tr, op) == Cardinality(Positions(tr, {op}))

\* C22: every scheduleAlarms call that completes (alarms enabled, day data
\* present) writes the stored record exactly once, and leaves it dated today
\* with exactly the alarms the call armed as its entries, all untriggered,
\* also when the call armed nothing.
C22_OneFreshRecordPerPlan ==
    [][ResumeArm =>
         /\ Count(trace', "storeAlarmData") = 1
         /\ nextAlarmData' # <<>>
         /\ nextAlarmData'[1].date = toDateString(clock)
         /\ [k \in 1 .. Len(nextAlarmData'[1].alarms) |->
                <<nextAlarmData'[1].alarms[k].type,
                  DateOf(nextAlarmData'[1].alarms[k].time)>>] = NewlyArmed
         /\ \A k \in 1 .. Len(nextAlarmData'[1].alarms) :
               ~nextAlarmData'[1].alarms[k].triggered]_vars

\* C24: an hourly tick with alarms enabled re-plans: it cancels every armed
\* timer and starts a scheduleAlarms call; a tick with alarms disabled calls
\* scheduleAlarms not at all and leaves timers, calls and record alone.  A
\* call that completes leaves only timers of the present date armed and,
\* when it armed one, a record of the present date: after a date change the
\* first tick's plan is that of the new day.
C24_TickAbsorbsRollover ==
    [][/\ ReplanTick =>
            IF getAlarmSettings(Main).enabled
            THEN /\ Traced(trace', "scheduleAlarms")
                 /\ alarmTimers' = <<>>
                 /\ calls' = Append(calls, [pc |-> "getTodayData",
                                            settings |-> getAlarmSettings(Main),
                                            todayData |-> <<>>, now |-> 0])
            ELSE /\ ~Traced(trace', "scheduleAlarms")
                 /\ UNCHANGED <<alarmTimers, calls, nextAlarmData>>
       /\ ResumeArm =>
            /\ \A i \in 1 .. Len(alarmTimers') :
                  toDateString(alarmTimers'[i].alarm.time) = toDateString(clock)
            /\ Len(NewlyArmed) > 0 =>
                  /\ nextAlarmData' # <<>>
                  /\ nextAlarmData'[1].date = toDateString(clock)]_vars

\* C24 witness: on the new day the tick of a process that was started on
\* the old day has just started a plan: the stored record is still the old
\* day's, and nothing else than the interval ran (no recovery, no save).
C24_Witness ==
    /\ running
    /\ clock >= DAY
    /\ intervalDue # <<>> /\ intervalDue[1] = clock + REPLAN_INTERVAL
    /\ Traced(trace, "scheduleAlarms")
    /\ ~Traced(trace, "checkMissedAlarms")
    /\ ~Traced(trace, "showToast")
    /\ alarmTimers = <<>>
    /\ calls # <<>>
    /\ nextAlarmData # <<>> /\ nextAlarmData[1].date = 0

\* The entries of the stored record that a checkMissedAlarms run at `now`
\* finds missed, in the record's order.
MissedEntries(slot, now) ==
    IF slot = <<>> THEN <<>>
    ELSE SelectSeq(slot[1].alarms, LAMBDA a : Recoverable(a, now))

\* The positions in a trace of the events of a function with a tag.
Tagged(tr, op, tag) == {i \in 1 .. Len(tr) : tr[i].op = op /\ tr[i].tag = tag}

EventOf(type) == IF type \in {"sahar-pre", "sahar"} THEN "Sahar" ELSE "Iftar"

\* C29: the missed-alarm summary of a checkMissedAlarms run lists every
\* missed entry, in order, under its own event (Sahar for sahar-pre and
\* sahar, Iftar for iftar-pre and iftar) and with its age in whole minutes.
C29_SummaryNamesEventAndAge ==
    [][CheckRuns =>
         LET found == MissedEntries(nextAlarmData, clock)
             toasts == Tagged(trace', "showToast", "warning")
         IN /\ Len(found) > 0 => toasts # {}
            /\ \A i \in toasts :
                  trace'[i].body =
                     [k \in 1 .. Len(found) |->
                         <<EventOf(found[k].type),
                           (clock - DateOf(found[k].time)) \div 60000>>]]_vars

\* C30: a checkMissedAlarms run on a present record leaves in storage the
\* same record with the flags of the missed entries raised when the record
\* is dated today, and no record when it is dated another day.
C30_RecordAfterRecovery ==
    [][(CheckRuns /\ nextAlarmData # <<>>) =>
         LET stored == nextAlarmData[1]
         IN IF stored.date = toDateString(clock)
            THEN nextAlarmData' =
                    <<[stored EXCEPT !.alarms =
                          [i \in 1 .. Len(stored.alarms) |->
                              [stored.alarms[i] EXCEPT !.triggered =
                                  @ \/ Recoverable(stored.alarms[i], clock)]]]>>
            ELSE nextAlarmData' = <<>>]_vars

\* C30 witness: a recovery run on the day after the record's date has written
\* the record back and then removed it.
C30_Witness ==
    /\ Traced(trace, "checkMissedAlarms")
    /\ clock >= DAY
    /\ \E i, j \in 1 .. Len(trace) :
          /\ i < j
          /\ trace[i].op = "storeAlarmData"
          /\ trace[j].op = "clearStoredAlarmData"
    /\ nextAlarmData = <<>>

\* C21: while the permission is 'denied' no handler asks for it: no step
\* taken with the permission denied calls Notification.requestPermission.
C21_DeniedNeverReprompted ==
    [][permission = "denied" => ~Traced(trace', "requestPermission")]_vars

\* A step in which a saveSettings call returns: at once when alarms are
\* saved disabled, after the permission request has answered otherwise.
SaveReturns ==
    \/ (SaveSettings \/ SaveAnySettings) /\ ~Traced(trace', "requestPermission")
    \/ PermissionAnswered

\* C23: every saveSettings call has invoked scheduleAlarms when it returns,
\* whatever it saved and whatever the permission request answered, so that no
\* timer stays armed once alarms are saved disabled.
C23_SaveAlwaysReplans ==
    [][SaveReturns =>
         /\ Traced(trace', "scheduleAlarms")
         /\ ~getAlarmSettings([alarmSettings |-> alarmSettings']).enabled
               => alarmTimers' = <<>>]_vars

\* The minutes of a settings value are integers from 1 to 60.
MinutesInRange(settings) ==
    /\ settings.saharMinutes \in 1 .. 60
    /\ settings.iftarMinutes \in 1 .. 60

\* C26: whatever texts the saves were given, the stored settings and the
\* settings every scheduleAlarms call has read hold saharMinutes and
\* iftarMinutes that are integers from 1 to 60.
C26_StoredMinutesInRange ==
    /\ alarmSettings # <<>> => MinutesInRange(alarmSettings[1])
    /\ \A settings \in ReadSettings : MinutesInRange(settings)

\* C26 witness: a form with 100 and -5 in the fields has been saved as 60 and
\* 1, and a scheduleAlarms call has read those offsets.
C26_Witness ==
    /\ alarmSettings # <<>>
    /\ alarmSettings[1].saharMinutes = 60
    /\ alarmSettings[1].iftarMinutes = 1
    /\ \E k \in 1 .. Len(calls) :
          calls[k].settings.saharMinutes = 60 /\ calls[k].settings.iftarMinutes = 1

\* C27: every same-origin GET request the worker intercepts while its cache
\* holds a response for it is answered with the cached response, without a
\* call to fetch, whatever the request is for.
C27_CacheFirstForAll ==
    (/\ response # <<>>
     /\ response[1].request.method = "GET"
     /\ response[1].request.sameOrigin
     /\ response[1].cached)
    => (response[1].source = "cache" /\ ~response[1].fetched)

\* A text is a 24-hour time written HH:MM, and a date written DD-MM.
HHMM(text) ==
    /\ Len(text) = 5
    /\ \/ DigitIn(text[1], 0, 1) /\ DigitIn(text[2], 0, 9)
       \/ text[1] = "2" /\ DigitIn(text[2], 0, 3)
    /\ text[3] = ":"
    /\ DigitIn(text[4], 0, 5) /\ DigitIn(text[5], 0, 9)
DDMM(text) ==
    /\ Len(text) = 5
    /\ DigitIn(text[1], 0, 3) /\ DigitIn(text[2], 0, 9)
    /\ NumberOf(SubSeq(text, 1, 2)) \in 1 .. 31
    /\ text[3] = "-"
    /\ DigitIn(text[4], 0, 1) /\ DigitIn(text[5], 0, 9)
    /\ NumberOf(SubSeq(text, 4, 5)) \in 1 .. 12

\* A day entry has a DD-MM date and HH:MM sahar and iftar times.
DayAcceptable(entry) ==
    /\ entry[1] = "object"
    /\ entry[2].date[1] = "string" /\ DDMM(entry[2].date[2])
    /\ entry[2].saharTime[1] = "string" /\ HHMM(entry[2].saharTime[2])
    /\ entry[2].iftarTime[1] = "string" /\ HHMM(entry[2].iftarTime[2])

\* A calendar as the import accepts it: a non-empty name, a non-zero year,
\* 29 or 30 acceptable days, no date twice.
CalendarAcceptable(calendar) ==
    /\ calendar.name[1] = "string" /\ calendar.name[2] # <<>>
    /\ calendar.year[1] = "number" /\ calendar.year[2] # 0
    /\ calendar.days[1] = "array"
    /\ Len(calendar.days[2]) \in {29, 30}
    /\ \A i \in 1 .. Len(calendar.days[2]) : DayAcceptable(calendar.days[2][i])
    /\ \A i, j \in 1 .. Len(calendar.days[2]) :
          i # j => calendar.days[2][i][2].date # calendar.days[2][j][2].date

\* C28: validateImportData accepts a single calendar exactly when it is
\* acceptable, and a multi-calendar file exactly when it holds at least one
\* calendar and all are acceptable; otherwise it returns an invalid result
\* carrying an error.
C28_ImportAcceptance ==
    validation # <<>> =>
       LET data == importData[1]
           result == validation[1]
           multiple == data.calendars[1] = "array"
           acceptable ==
              IF multiple
              THEN /\ Len(data.calendars[2]) >= 1
                   /\ \A i \in 1 .. Len(data.calendars[2]) :
                         CalendarAcceptable(data.calendars[2][i])
              ELSE CalendarAcceptable(data)
       IN /\ result.valid <=> acceptable
          /\ ~result.valid => (~result.threw /\ result.error # <<>>)


\* C31: while the stored settings have enabled = false no alarm timer is
\* armed, so none can fire: a save that disables alarms, and clearAllData,
\* leave no timer behind.
C31_DisabledNothingArmed ==
    (running /\ ~getAlarmSettings(Main).enabled) => alarmTimers = <<>>

\* C32 as stated: a checkMissedAlarms run that follows an earlier run, with
\* nothing changed in between but the clock, raises no toast, asks for no
\* notification and leaves the stored record as it was.
C32_SecondRunSilent ==
    [][(RecoveryRun /\ life = "checkMissedAlarms")
       => (~MissedReported(trace') /\ nextAlarmData' = nextAlarmData)]_vars

\* C32 amended: a run that follows a run at the same clock reading raises no
\* toast, asks for no notification and leaves the stored record as it was;
\* a run at a later clock reading reports only entries that no run has
\* marked before.
C32_SecondRunSameClockSilent ==
    [][(RecoveryRun /\ life = "checkMissedAlarms")
       => /\ Traced(trace, "checkMissedAlarms")
                => (~MissedReported(trace') /\ nextAlarmData' = nextAlarmData)
          /\ MissedReported(trace')
                => \A k \in 1 .. Len(ReportedAges(trace')) :
                      \E i \in 1 .. Len(nextAlarmData[1].alarms) :
                         /\ ~nextAlarmData[1].alarms[i].triggered
                         /\ ReportedAges(trace')[k] =
                               (clock - DateOf(nextAlarmData[1].alarms[i].time)) \div 60000]_vars

\* C32 witness: at 06:14:59 a run has reported the 05:15 alarm and marked
\* it, and a second run at the same clock reading has then reported nothing.
C32_Witness ==
    /\ clock = At(6, 14, 59)
    /\ Traced(trace, "checkMissedAlarms")
    /\ Traced(trace, "storeAlarmData")
    /\ ~MissedReported(trace)
    /\ HoldsEntry(nextAlarmData, "sahar-pre", TRUE)
    /\ nextAlarmData[1].date = 0

Asked == SelectSeq(SubSeq(posted, 1, handled),
                   LAMBDA data : data # <<>> /\ data[1].type = "SHOW_NOTIFICATION")
Payloads == [i \in 1 .. Len(Asked) |->
                <<<<<<Asked[i][1].title, 0>>>> \o Asked[i][1].body, Asked[i][1].tag>>]
WorkerDid(op) ==
    LET events == SelectSeq(workerTrace, LAMBDA ev : ev.op = op)
    IN [i \in 1 .. Len(events) |-> <<events[i].body, events[i].tag>>]

\* C33 as stated: the notifications the worker has raised are those of the
\* SHOW_NOTIFICATION messages it has handled, one each, with the message's
\* title, body and tag, and none for a message of another type; and the page
\* can post again whatever the worker has handled.
C33_OneNotificationPerMessage ==
    /\ WorkerDid("notification") = Payloads
    /\ Len(posted) < MaxMessages => ENABLED PostMessage

\* C33 amended: the worker has called registration.showNotification once for
\* each SHOW_NOTIFICATION message it has handled, with the message's title,
\* body and tag, and for no other message; each call has raised a
\* notification when the permission is 'granted' and none otherwise; and the
\* page can post again whatever the worker has handled.
C33_OneCallPerMessage ==
    /\ WorkerDid("registration.showNotification") = Payloads
    /\ WorkerDid("notification") = IF permission = "granted" THEN Payloads ELSE <<>>
    /\ Len(posted) < MaxMessages => ENABLED PostMessage

\* C33 witness: with permission granted the page has posted the message of
\* the sahar reminder and a GET_VERSION message, and the worker has handled
\* both and raised one notification, the reminder's.
C33_Witness ==
    /\ permission = "granted"
    /\ Len(posted) = 2 /\ handled = 2
    /\ posted[1] # <<>> /\ posted[1][1].type = "SHOW_NOTIFICATION"
    /\ posted[1][1].tag = "sahar-pre"
    /\ posted[2] = <<Bare("GET_VERSION")>>
    /\ Len(WorkerDid("notification")) = 1
    /\ WorkerDid("notification")[1][2] = "sahar-pre"

\* C38: whenever no request is pending at the store, the stored active
\* calendar id is unset or is the id of a stored calendar.
C38_ActiveIdExists ==
    calls = <<>> =>
       (activeCalendarId = <<>> \/ \E c \in calendars : c.id = activeCalendarId[1])

\* The toast of a confirmImport that finds no pending data.
NoDataToImport == Ev("showToast", "error", <<<<"No data to import", 0>>>>)

\* C35: in the import flow pendingImportData is null or the last chosen
\* file's data, and that data passed validateImportData; it is null after
\* cancelImport and after a confirmImport that has succeeded; and a
\* confirmImport that finds it null adds no request and no calendar and
\* reports 'No data to import'.
C35_PendingNullOrValidated ==
    /\ [](pendingImportData # <<>> =>
             /\ pendingImportData = importData
             /\ validateImportData(pendingImportData[1]).valid)
    /\ [][/\ Traced(trace', "hideImportPreview") => pendingImportData' = <<>>
          /\ Tagged(trace', "showToast", "success") # {} => pendingImportData' = <<>>
          /\ (pendingImportData = <<>> /\ ConfirmImport) =>
                /\ calendars' = calendars
                /\ calls' = calls
                /\ trace' = <<NoDataToImport>>]_vars

\* A valid file was chosen, a calendar has been imported, nothing is pending,
\* and a confirmImport has just reported 'No data to import'.
C35_Witness ==
    /\ trace = <<NoDataToImport>>
    /\ validation # <<>> /\ validation[1].valid
    /\ pendingImportData = <<>>
    /\ calls = <<>>
    /\ \E c \in calendars : c.id >= 2

\* C36: no two stored calendars have the same name.
C36_NamesStayDistinct ==
    \A c1 \in calendars : \A c2 \in calendars : c1.name = c2.name => c1.id = c2.id

\* C37: a chosen file that exportCalendar or exportAllCalendars makes of the
\* stored calendars passes validateImportData.
C37_ExportPassesValidation ==
    (importData # <<>> /\ importData \in ExportedFiles(calendars))
       => (validation # <<>> /\ validation[1].valid)

====
